---- MODULE Spec2Model ----
(***************************************************************************)
(* Model of the yuuka double-entry ledger: the SQLite store shared by      *)
(* AccountRepository, TransactionRepository, QueryRepository and            *)
(* LedgerRepository, the write operations on it and the reports over it.    *)
(*                                                                         *)
(* Strings are tuples of one-character strings, so that str.strip() and    *)
(* str.lower() are computed character by character.  Amounts are integers  *)
(* (the code stores REAL); confidence is an integer number of hundredths.  *)
(***************************************************************************)
EXTENDS Integers, Sequences, FiniteSets, TLC

VARIABLES db, last, conns, wlock

vars == <<db, last, conns, wlock>>

(***************************************************************************)
(* Python values                                                           *)
(***************************************************************************)
None == <<"<None>">>

\* None where a row object is expected
NoRow == [none |-> TRUE]

Truthy(s) == s # None /\ s # <<>>

Whitespace == {" ", "\t", "\n"}

UpperChars == <<"A","B","C","D","E","F","G","H","I","J","K","L","M",
                "N","O","P","Q","R","S","T","U","V","W","X","Y","Z">>

LowerChars == <<"a","b","c","d","e","f","g","h","i","j","k","l","m",
                "n","o","p","q","r","s","t","u","v","w","x","y","z">>

\* str.lower() of one character (ASCII letters)
LowerOf == [ c \in { UpperChars[i] : i \in 1..Len(UpperChars) } |->
               LowerChars[CHOOSE i \in 1..Len(UpperChars) : UpperChars[i] = c] ]

LowerChar(c) == IF c \in DOMAIN LowerOf THEN LowerOf[c] ELSE c

Lower(s) == [i \in 1..Len(s) |-> LowerChar(s[i])]

RECURSIVE LStrip(_)
LStrip(s) ==
    IF s = <<>> THEN s
    ELSE IF Head(s) \in Whitespace THEN LStrip(Tail(s)) ELSE s

RECURSIVE RStrip(_)
RStrip(s) ==
    IF s = <<>> THEN s
    ELSE IF s[Len(s)] \in Whitespace THEN RStrip(SubSeq(s, 1, Len(s) - 1)) ELSE s

Strip(s) == RStrip(LStrip(s))

Contains(kw, s) ==
    \E i \in 0..(Len(s) - Len(kw)) : SubSeq(s, i + 1, i + Len(kw)) = kw

Abs(x) == IF x < 0 THEN -x ELSE x

(***************************************************************************)
(* Account types and the keyword heuristic                                 *)
(***************************************************************************)
AccountType == {"asset", "liability", "equity", "revenue", "expense"}

revenue_keywords ==
    { <<"i","n","c","o","m","e">>,
      <<"s","a","l","a","r","y">>,
      <<"w","a","g","e">>,
      <<"r","e","v","e","n","u","e">>,
      <<"e","a","r","n","i","n","g","s">>,
      <<"b","o","n","u","s">>,
      <<"c","o","m","m","i","s","s","i","o","n">>,
      <<"d","i","v","i","d","e","n","d">>,
      <<"i","n","t","e","r","e","s","t">> }

expense_keywords ==
    { <<"e","x","p","e","n","s","e">>,
      <<"f","o","o","d">>,
      <<"l","u","n","c","h">>,
      <<"d","i","n","n","e","r">>,
      <<"b","r","e","a","k","f","a","s","t">>,
      <<"t","r","a","n","s","p","o","r","t">>,
      <<"c","o","m","m","u","t","e">>,
      <<"r","e","n","t">>,
      <<"u","t","i","l","i","t","y">>,
      <<"s","u","b","s","c","r","i","p","t","i","o","n">>,
      <<"s","h","o","p","p","i","n","g">>,
      <<"e","n","t","e","r","t","a","i","n","m","e","n","t">>,
      <<"c","o","f","f","e","e">>,
      <<"s","n","a","c","k">> }

asset_keywords ==
    { <<"b","a","n","k">>,
      <<"w","a","l","l","e","t">>,
      <<"c","a","s","h">>,
      <<"a","c","c","o","u","n","t">>,
      <<"s","a","v","i","n","g","s">>,
      <<"p","o","c","k","e","t">>,
      <<"g","o","p","a","y">>,
      <<"o","v","o">>,
      <<"d","a","n","a">>,
      <<"s","h","o","p","e","e","p","a","y">>,
      <<"p","a","y","p","a","l">>,
      <<"v","e","n","m","o">> }

liability_keywords ==
    { <<"l","o","a","n">>,
      <<"d","e","b","t">>,
      <<"c","r","e","d","i","t"," ","c","a","r","d">>,
      <<"m","o","r","t","g","a","g","e">>,
      <<"p","a","y","a","b","l","e">>,
      <<"o","w","e">> }

infer_account_type(name) ==
    LET name_lower == Strip(Lower(name)) IN
    IF \E kw \in revenue_keywords : Contains(kw, name_lower) THEN "revenue"
    ELSE IF \E kw \in expense_keywords : Contains(kw, name_lower) THEN "expense"
    ELSE IF \E kw \in asset_keywords : Contains(kw, name_lower) THEN "asset"
    ELSE IF \E kw \in liability_keywords : Contains(kw, name_lower) THEN "liability"
    ELSE "asset"

DEFAULT_SYSTEM_ACCOUNTS ==
    << [name |-> <<"I","n","c","o","m","e">>, account_type |-> "revenue"],
       [name |-> <<"E","x","p","e","n","s","e">>, account_type |-> "expense"],
       [name |-> <<"C","a","s","h">>, account_type |-> "asset"] >>

(***************************************************************************)
(* The store.  account_groups and accounts are never deleted from, so the  *)
(* row with id i is the i-th element of the sequence; the other tables are *)
(* sets of rows and seq holds their AUTOINCREMENT counters.                *)
(***************************************************************************)
EmptyDb ==
    [ account_groups  |-> <<>>,
      account_aliases |-> {},
      accounts        |-> <<>>,
      transactions    |-> {},
      journal_entries |-> {},
      ledger_entries  |-> {},
      seq |-> [ account_aliases |-> 0, transactions |-> 0,
                journal_entries |-> 0, ledger_entries |-> 0 ] ]

GroupRow(d, id) ==
    [ id |-> id,
      name |-> d.account_groups[id].name,
      account_type |-> d.account_groups[id].account_type,
      user_id |-> d.account_groups[id].user_id,
      is_system |-> d.account_groups[id].is_system ]

GroupIds(d) == 1..Len(d.account_groups)

AccountIds(d) == 1..Len(d.accounts)

MinOf(S) == CHOOSE x \in S : \A y \in S : x <= y

Result(d, kind, value) == [db |-> d, kind |-> kind, value |-> value]

(***************************************************************************)
(* AccountRepository                                                       *)
(***************************************************************************)
get_account_group_by_name(d, name, user_id) ==
    IF ~Truthy(name) THEN NoRow
    ELSE LET ids == { i \in GroupIds(d) :
                        /\ Lower(d.account_groups[i].name) = Lower(Strip(name))
                        /\ d.account_groups[i].user_id = user_id }
         IN IF ids = {} THEN NoRow ELSE GroupRow(d, MinOf(ids))

\* A variant that rebinds the owner's alias of the new name to the new group
create_account_group_Rebind(d, name, user_id, account_type, is_system) ==
    IF ~Truthy(name) \/ Strip(name) = <<>> THEN Result(d, "ValueError", NoRow)
    ELSE IF ~Truthy(user_id) THEN Result(d, "ValueError", NoRow)
    ELSE
      LET n == Strip(name)
          dup == \E i \in GroupIds(d) :
                    /\ Lower(d.account_groups[i].name) = Lower(n)
                    /\ d.account_groups[i].user_id = user_id
          group_id == Len(d.account_groups) + 1
          row == [name |-> n, account_type |-> account_type,
                  user_id |-> user_id, is_system |-> is_system]
          kept == { a \in d.account_aliases :
                      ~(a.alias = Lower(n) /\ a.user_id = user_id) }
          alias_id == d.seq.account_aliases + 1
          d2 == [d EXCEPT
                   !.account_groups = Append(@, row),
                   !.account_aliases = kept \cup
                       {[id |-> alias_id, alias |-> Lower(n),
                         group_id |-> group_id, user_id |-> user_id]},
                   !.seq.account_aliases = alias_id]
      IN IF dup THEN Result(d, "ValueError", NoRow)
         ELSE IF account_type \notin AccountType
              THEN Result(d, "IntegrityError", NoRow)
         ELSE Result(d2, "ok", GroupRow(d2, group_id))

create_account_group(d, name, user_id, account_type, is_system) ==
    IF ~Truthy(name) \/ Strip(name) = <<>> THEN Result(d, "ValueError", NoRow)
    ELSE IF ~Truthy(user_id) THEN Result(d, "ValueError", NoRow)
    ELSE
      LET n == Strip(name)
          dup == \E i \in GroupIds(d) :
                    /\ Lower(d.account_groups[i].name) = Lower(n)
                    /\ d.account_groups[i].user_id = user_id
          group_id == Len(d.account_groups) + 1
          row == [name |-> n, account_type |-> account_type,
                  user_id |-> user_id, is_system |-> is_system]
          alias_taken == \E a \in d.account_aliases :
                            a.alias = Lower(n) /\ a.user_id = user_id
          alias_id == d.seq.account_aliases + 1
          d2 == [d EXCEPT
                   !.account_groups = Append(@, row),
                   !.account_aliases = @ \cup
                       {[id |-> alias_id, alias |-> Lower(n),
                         group_id |-> group_id, user_id |-> user_id]},
                   !.seq.account_aliases = alias_id]
      IN IF dup THEN Result(d, "ValueError", NoRow)
         ELSE IF account_type \notin AccountType
              THEN Result(d, "IntegrityError", NoRow)
         ELSE IF alias_taken THEN Result(d, "IntegrityError", NoRow)
         ELSE Result(d2, "ok", GroupRow(d2, group_id))

\* A variant that moves an alias bound to another group instead of refusing
add_account_alias_Remap(d, alias, group_id, user_id) ==
    LET a == Lower(Strip(alias))
        kept == { r \in d.account_aliases :
                    ~(r.alias = a /\ r.user_id = user_id) }
        alias_id == d.seq.account_aliases + 1
        row == [id |-> alias_id, alias |-> a,
                group_id |-> group_id, user_id |-> user_id]
    IN Result([d EXCEPT !.account_aliases = kept \cup {row},
                        !.seq.account_aliases = alias_id], "ok", row)

\* A variant that inserts a row without looking for an existing one
add_account_alias_Again(d, alias, group_id, user_id) ==
    LET alias_id == d.seq.account_aliases + 1
        row == [id |-> alias_id, alias |-> Lower(Strip(alias)),
                group_id |-> group_id, user_id |-> user_id]
    IN Result([d EXCEPT !.account_aliases = @ \cup {row},
                        !.seq.account_aliases = alias_id], "ok", row)

add_account_alias(d, alias, group_id, user_id) ==
    IF ~Truthy(alias) \/ Strip(alias) = <<>> THEN Result(d, "ValueError", NoRow)
    ELSE IF ~Truthy(user_id) THEN Result(d, "ValueError", NoRow)
    ELSE
      LET a == Lower(Strip(alias))
          group_ok == group_id \in GroupIds(d)
                      /\ d.account_groups[group_id].user_id = user_id
          existing == { r \in d.account_aliases :
                          r.alias = a /\ r.user_id = user_id }
          alias_id == d.seq.account_aliases + 1
          row == [id |-> alias_id, alias |-> a,
                  group_id |-> group_id, user_id |-> user_id]
          d2 == [d EXCEPT !.account_aliases = @ \cup {row},
                          !.seq.account_aliases = alias_id]
      IN IF ~group_ok THEN Result(d, "ValueError", NoRow)
         ELSE IF existing # {}
              THEN LET e == CHOOSE r \in existing : TRUE IN
                   IF e.group_id = group_id THEN Result(d, "ok", e)
                   ELSE Result(d, "ValueError", NoRow)
         ELSE Result(d2, "ok", row)

\* A variant that looks the alias up without trimming it
resolve_account_alias_Untrimmed(d, alias, user_id) ==
    IF ~Truthy(alias) THEN NoRow
    ELSE LET a == Lower(alias)
             ids == { r.group_id : r \in
                        { r \in d.account_aliases :
                            /\ r.alias = a
                            /\ r.user_id = user_id
                            /\ r.group_id \in GroupIds(d) } }
         IN IF ids = {} THEN NoRow ELSE GroupRow(d, MinOf(ids))

resolve_account_alias(d, alias, user_id) ==
    IF ~Truthy(alias) THEN NoRow
    ELSE LET a == Lower(Strip(alias))
             ids == { r.group_id : r \in
                        { r \in d.account_aliases :
                            /\ r.alias = a
                            /\ r.user_id = user_id
                            /\ r.group_id \in GroupIds(d) } }
         IN IF ids = {} THEN NoRow ELSE GroupRow(d, MinOf(ids))

\* A variant whose DELETE compares the alias as it was typed
remove_account_alias_Exact(d, alias, user_id) ==
    LET hit == { r \in d.account_aliases :
                   r.alias = alias /\ r.user_id = user_id }
    IN Result([d EXCEPT !.account_aliases = @ \ hit], "ok", hit # {})

remove_account_alias(d, alias, user_id) ==
    IF ~Truthy(alias) THEN Result(d, "ok", FALSE)
    ELSE LET a == Lower(Strip(alias))
             hit == { r \in d.account_aliases :
                        r.alias = a /\ r.user_id = user_id }
         IN Result([d EXCEPT !.account_aliases = @ \ hit], "ok", hit # {})

RECURSIVE EnsureGroupsFrom(_, _, _)
EnsureGroupsFrom(d, user_id, i) ==
    LET Created(r) ==
            IF r.kind # "ok" THEN Result(r.db, r.kind, NoRow)
            ELSE EnsureGroupsFrom(r.db, user_id, i + 1)
        Each(def) ==
            IF get_account_group_by_name(d, def.name, user_id) # NoRow
            THEN EnsureGroupsFrom(d, user_id, i + 1)
            ELSE Created(create_account_group(d, def.name, user_id,
                                              def.account_type, TRUE))
    IN IF i > Len(DEFAULT_SYSTEM_ACCOUNTS) THEN Result(d, "ok", NoRow)
       ELSE Each(DEFAULT_SYSTEM_ACCOUNTS[i])

\* A variant whose loop misses the first default
ensure_system_account_groups_FromSecond(d, user_id) ==
    EnsureGroupsFrom(d, user_id, 2)

ensure_system_account_groups(d, user_id) == EnsureGroupsFrom(d, user_id, 1)

\* A variant that makes every name it stores a group with an alias first
get_or_create_account_Promoting(d, name, user_id, account_type, is_system, group_id) ==
    LET Stored(g) ==
            LET n == Lower(Strip(name))
                ids == { i \in AccountIds(g) :
                           g.accounts[i].name = n /\ g.accounts[i].user_id = user_id }
                row == [name |-> n, account_type |-> account_type,
                        user_id |-> user_id, is_system |-> is_system,
                        group_id |-> group_id]
                g2 == [g EXCEPT !.accounts = Append(@, row)]
            IN IF ids # {}
               THEN Result(g, "ok", [id |-> MinOf(ids)] @@ g.accounts[MinOf(ids)])
               ELSE Result(g2, "ok", [id |-> Len(g2.accounts)] @@ row)
    IN IF ~Truthy(name) \/ Strip(name) = <<>> THEN Result(d, "ValueError", NoRow)
       ELSE IF ~Truthy(user_id) THEN Result(d, "ValueError", NoRow)
       ELSE Stored(create_account_group(d, name, user_id, account_type,
                                        is_system).db)

get_or_create_account(d, name, user_id, account_type, is_system, group_id) ==
    IF ~Truthy(name) \/ Strip(name) = <<>> THEN Result(d, "ValueError", NoRow)
    ELSE IF ~Truthy(user_id) THEN Result(d, "ValueError", NoRow)
    ELSE
      LET n == Lower(Strip(name))
          ids == { i \in AccountIds(d) :
                     d.accounts[i].name = n /\ d.accounts[i].user_id = user_id }
          row == [name |-> n, account_type |-> account_type,
                  user_id |-> user_id, is_system |-> is_system,
                  group_id |-> group_id]
          d2 == [d EXCEPT !.accounts = Append(@, row)]
      IN IF ids # {}
         THEN Result(d, "ok", [id |-> MinOf(ids)] @@ d.accounts[MinOf(ids)])
         ELSE Result(d2, "ok", [id |-> Len(d2.accounts)] @@ row)

RECURSIVE EnsureAccountsFrom(_, _, _)
EnsureAccountsFrom(d, user_id, i) ==
    LET Created(r) ==
            IF r.kind # "ok" THEN Result(r.db, r.kind, NoRow)
            ELSE EnsureAccountsFrom(r.db, user_id, i + 1)
        Each(def, group) ==
            Created(get_or_create_account(d, Lower(def.name), user_id,
                       def.account_type, TRUE,
                       IF group # NoRow THEN group.id ELSE 0))
    IN IF i > Len(DEFAULT_SYSTEM_ACCOUNTS) THEN Result(d, "ok", NoRow)
       ELSE Each(DEFAULT_SYSTEM_ACCOUNTS[i],
                 get_account_group_by_name(d, DEFAULT_SYSTEM_ACCOUNTS[i].name,
                                           user_id))

ensure_system_accounts(d, user_id) ==
    LET WithGroups(g) ==
            IF g.kind # "ok" THEN g ELSE EnsureAccountsFrom(g.db, user_id, 1)
    IN WithGroups(ensure_system_account_groups(d, user_id))

(***************************************************************************)
(* Optional numbers: NoneNum is Python's None, Num(n) a number.            *)
(***************************************************************************)
NoneNum == <<>>

Num(n) == <<n>>

IsNum(a) == Len(a) = 1

Val(a) == a[1]

(***************************************************************************)
(* BaseRepository._get_connection: statements run on a working copy of the *)
(* store; leaving the scope commits it, an exception rolls it back.        *)
(***************************************************************************)
Commit(committed, working) == working

\* A variant that keeps what the failed scope wrote
Rollback_Keep(committed, working) == working

Rollback(committed, working) == committed

(***************************************************************************)
(* ParsedTransaction                                                       *)
(***************************************************************************)
is_valid(parsed) ==
    LET has_amount == IsNum(parsed.amount) /\ Val(parsed.amount) > 0 IN
    IF parsed.action = "transfer"
    THEN has_amount /\ parsed.source # None /\ parsed.destination # None
    ELSE IF parsed.action = "incoming"
    THEN has_amount /\ parsed.destination # None
    ELSE IF parsed.action = "outgoing"
    THEN has_amount /\ parsed.source # None
    ELSE FALSE

Or(a, b) == IF Truthy(a) THEN a ELSE b

\* "transfer and liability sides stay, anything else falls back to asset"
KeepOrAsset(t, allowed) == IF t \in allowed THEN t ELSE "asset"

\* insert, lines 126-179: the debit and credit side of each action
\* A variant that debits the source side and credits the destination side
InsertSides_Swapped(parsed) ==
    LET cash == <<"c","a","s","h">>
        Sides(dn, cn) ==
            [ debit_account_name  |-> cn,
              credit_account_name |-> dn,
              debit_account_type  |-> "asset",
              credit_account_type |-> "asset" ]
    IN IF parsed.action = "incoming"
       THEN Sides(Or(parsed.destination, cash),
                  Or(parsed.source, <<"i","n","c","o","m","e">>))
       ELSE IF parsed.action = "outgoing"
       THEN Sides(Or(parsed.destination, <<"e","x","p","e","n","s","e">>),
                  Or(parsed.source, cash))
       ELSE Sides(Or(parsed.destination, cash), Or(parsed.source, cash))

InsertSides(parsed) ==
    LET cash == <<"c","a","s","h">>
        Incoming(dn, cn) ==
            [ debit_account_name  |-> dn,
              credit_account_name |-> cn,
              debit_account_type  |-> KeepOrAsset(infer_account_type(dn),
                                                  {"asset", "expense"}),
              credit_account_type |-> "revenue" ]
        Outgoing(dn, cn) ==
            [ debit_account_name  |-> dn,
              credit_account_name |-> cn,
              debit_account_type  |-> "expense",
              credit_account_type |-> KeepOrAsset(infer_account_type(cn),
                                                  {"asset", "liability"}) ]
        Transfer(dn, cn) ==
            [ debit_account_name  |-> dn,
              credit_account_name |-> cn,
              debit_account_type  |-> KeepOrAsset(infer_account_type(dn),
                                                  {"asset", "liability"}),
              credit_account_type |-> KeepOrAsset(infer_account_type(cn),
                                                  {"asset", "liability"}) ]
    IN IF parsed.action = "incoming"
       THEN Incoming(Or(parsed.destination, cash),
                     Or(parsed.source, <<"i","n","c","o","m","e">>))
       ELSE IF parsed.action = "outgoing"
       THEN Outgoing(Or(parsed.destination, <<"e","x","p","e","n","s","e">>),
                     Or(parsed.source, cash))
       ELSE Transfer(Or(parsed.destination, cash), Or(parsed.source, cash))

(***************************************************************************)
(* SQL statements of TransactionRepository on a working copy w             *)
(***************************************************************************)
\* A variant for a transactions table without AUTOINCREMENT: the new row
\* takes the largest id in the table plus one
InsertTransactionRow_Reused(w, description, user_id) ==
    LET ids == { t.id : t \in w.transactions }
        id == IF ids = {} THEN 1
              ELSE (CHOOSE m \in ids : \A i \in ids : i <= m) + 1
    IN [w EXCEPT !.transactions = @ \cup
                    {[id |-> id, description |-> description, user_id |-> user_id]},
                 !.seq.transactions = id]

InsertTransactionRow(w, description, user_id) ==
    LET id == w.seq.transactions + 1 IN
    [w EXCEPT !.transactions = @ \cup
                 {[id |-> id, description |-> description, user_id |-> user_id]},
              !.seq.transactions = id]

InsertJournalRow(w, transaction_id, account_id, account_name, entry_type, amount) ==
    LET id == w.seq.journal_entries + 1 IN
    [w EXCEPT !.journal_entries = @ \cup
                 {[id |-> id, transaction_id |-> transaction_id,
                   account_id |-> account_id, account_name |-> account_name,
                   entry_type |-> entry_type, amount |-> amount]},
              !.seq.journal_entries = id]

InsertLedgerRow(w, parsed, user_id, transaction_id) ==
    LET id == w.seq.ledger_entries + 1 IN
    [w EXCEPT !.ledger_entries = @ \cup
                 {[id |-> id, action |-> parsed.action,
                   amount |-> Val(parsed.amount), source |-> parsed.source,
                   destination |-> parsed.destination,
                   description |-> parsed.description, user_id |-> user_id,
                   transaction_id |-> transaction_id]},
              !.seq.ledger_entries = id]

\* A variant that rewrites the amount and leaves the account name
UpdateJournalRow_AmountOnly(w, id, amount, account_name) ==
    [w EXCEPT !.journal_entries =
        { IF je.id = id THEN [je EXCEPT !.amount = amount] ELSE je : je \in @ }]

\* A variant that rewrites the amount of the debit row only
UpdateJournalRow_DebitOnly(w, id, amount, account_name) ==
    [w EXCEPT !.journal_entries =
        { IF je.id = id
          THEN [je EXCEPT !.amount = IF je.entry_type = "debit" THEN amount ELSE @,
                          !.account_name = account_name]
          ELSE je : je \in @ }]

UpdateJournalRow(w, id, amount, account_name) ==
    [w EXCEPT !.journal_entries =
        { IF je.id = id
          THEN [je EXCEPT !.amount = amount, !.account_name = account_name]
          ELSE je : je \in @ }]

UpdateTransactionRow(w, id, description) ==
    [w EXCEPT !.transactions =
        { IF t.id = id THEN [t EXCEPT !.description = description] ELSE t
          : t \in @ }]

\* A variant whose UPDATE leaves the amount of the ledger row as it was
UpdateLedgerRow_NoAmount(w, id, amount, source, destination, description) ==
    [w EXCEPT !.ledger_entries =
        { IF le.id = id
          THEN [le EXCEPT !.source = source,
                          !.destination = destination,
                          !.description = description]
          ELSE le : le \in @ }]

UpdateLedgerRow(w, id, amount, source, destination, description) ==
    [w EXCEPT !.ledger_entries =
        { IF le.id = id
          THEN [le EXCEPT !.amount = amount, !.source = source,
                          !.destination = destination,
                          !.description = description]
          ELSE le : le \in @ }]

DeleteLedgerRow(w, id) ==
    [w EXCEPT !.ledger_entries = { le \in @ : le.id # id }]

\* A variant whose DELETE has no WHERE clause
DeleteJournalRows_All(w, transaction_id) ==
    [w EXCEPT !.journal_entries = {}]

DeleteJournalRows(w, transaction_id) ==
    [w EXCEPT !.journal_entries =
        { je \in @ : je.transaction_id # transaction_id }]

\* DELETE FROM transactions with the schema's foreign keys:
\* journal_entries ON DELETE CASCADE, ledger_entries ON DELETE SET NULL
DeleteTransactionRow(w, id) ==
    [w EXCEPT !.transactions = { t \in @ : t.id # id },
              !.journal_entries = { je \in @ : je.transaction_id # id },
              !.ledger_entries =
                 { IF le.transaction_id = id
                   THEN [le EXCEPT !.transaction_id = 0] ELSE le : le \in @ }]

\* One SQL statement, given as a record, applied to the working copy w
Exec(w, st) ==
    CASE st.op = "insert_transaction" ->
           InsertTransactionRow(w, st.description, st.user_id)
      [] st.op = "insert_journal" ->
           InsertJournalRow(w, w.seq.transactions, st.account_id,
                            st.account_name, st.entry_type, st.amount)
      [] st.op = "insert_ledger" ->
           InsertLedgerRow(w, st.parsed, st.user_id, w.seq.transactions)
      [] st.op = "update_journal" ->
           UpdateJournalRow(w, st.id, st.amount, st.account_name)
      [] st.op = "update_transaction" ->
           UpdateTransactionRow(w, st.id, st.description)
      [] st.op = "update_ledger" ->
           UpdateLedgerRow(w, st.id, st.amount, st.source, st.destination,
                           st.description)
      [] st.op = "delete_ledger" -> DeleteLedgerRow(w, st.id)
      [] st.op = "delete_journal" -> DeleteJournalRows(w, st.transaction_id)
      [] st.op = "delete_transaction" -> DeleteTransactionRow(w, st.id)

\* The working copy after the first n statements of stmts
RECURSIVE RunStmts(_, _, _)
RunStmts(w, stmts, n) ==
    IF n = 0 THEN w ELSE Exec(RunStmts(w, stmts, n - 1), stmts[n])

\* One connection scope over the committed store d.  fault = 0: every
\* statement runs and the scope commits; fault = k > 0: step k (statement
\* k, or the commit when k = Len(stmts) + 1) raises
\* sqlite3.OperationalError and the scope rolls back.
RunScope(d, stmts, fault) ==
    IF fault = 0 \/ fault > Len(stmts) + 1
    THEN [db |-> Commit(d, RunStmts(d, stmts, Len(stmts))), failed |-> FALSE]
    ELSE [db |-> Rollback(d, RunStmts(d, stmts, fault - 1)), failed |-> TRUE]

\* Rows of S as a sequence ordered by id
RECURSIVE SortById(_)
SortById(S) ==
    IF S = {} THEN <<>>
    ELSE LET m == CHOOSE r \in S : \A q \in S : r.id <= q.id
         IN <<m>> \o SortById(S \ {m})

(***************************************************************************)
(* TransactionRepository                                                   *)
(***************************************************************************)
get_transaction_by_id(d, transaction_id) ==
    LET rows == { t \in d.transactions : t.id = transaction_id } IN
    IF rows = {} THEN NoRow
    ELSE LET t == CHOOSE r \in rows : TRUE
             es == { je \in d.journal_entries : je.transaction_id = transaction_id }
         IN [ id |-> t.id, description |-> t.description, user_id |-> t.user_id,
              entries |-> SortById({ je \in es : je.entry_type = "debit" })
                          \o SortById({ je \in es : je.entry_type = "credit" }) ]

\* A variant that never writes the credit entry
InsertStmts_NoCredit(parsed, user_id, debit_id, debit_name, credit_id, credit_name) ==
    << [op |-> "insert_transaction", description |-> parsed.description,
        user_id |-> user_id],
       [op |-> "insert_journal", account_id |-> debit_id,
        account_name |-> debit_name, entry_type |-> "debit",
        amount |-> Val(parsed.amount)],
       [op |-> "insert_ledger", parsed |-> parsed, user_id |-> user_id] >>

\* insert, lines 211-296: the statements of the write scope
InsertStmts(parsed, user_id, debit_id, debit_name, credit_id, credit_name) ==
    << [op |-> "insert_transaction", description |-> parsed.description,
        user_id |-> user_id],
       [op |-> "insert_journal", account_id |-> debit_id,
        account_name |-> debit_name, entry_type |-> "debit",
        amount |-> Val(parsed.amount)],
       [op |-> "insert_journal", account_id |-> credit_id,
        account_name |-> credit_name, entry_type |-> "credit",
        amount |-> Val(parsed.amount)],
       [op |-> "insert_ledger", parsed |-> parsed, user_id |-> user_id] >>

\* insert, lines 181-209 and 233-239: alias resolution, the legacy accounts
\* (each created in a scope of its own) and the journal account ids
InsertPlan(d, parsed, user_id) ==
    LET IdOrNull(group) == IF group # NoRow THEN group.id ELSE 0
        Planned(sides, debit_group, credit_group, da, ca) ==
            IF ca.kind # "ok" THEN Result(ca.db, ca.kind, NoRow)
            ELSE Result(ca.db, "ok",
                   InsertStmts(parsed, user_id,
                      IF debit_group # NoRow THEN debit_group.id ELSE da.value.id,
                      IF debit_group # NoRow THEN debit_group.name
                                            ELSE sides.debit_account_name,
                      IF credit_group # NoRow THEN credit_group.id ELSE ca.value.id,
                      IF credit_group # NoRow THEN credit_group.name
                                             ELSE sides.credit_account_name))
        WithDebit(sides, debit_group, credit_group, da) ==
            IF da.kind # "ok" THEN Result(da.db, da.kind, NoRow)
            ELSE Planned(sides, debit_group, credit_group, da,
                   get_or_create_account(da.db, sides.credit_account_name,
                      user_id, sides.credit_account_type, FALSE,
                      IdOrNull(credit_group)))
        Resolved(sides, debit_group, credit_group) ==
            WithDebit(sides, debit_group, credit_group,
               get_or_create_account(d, sides.debit_account_name, user_id,
                  sides.debit_account_type, FALSE, IdOrNull(debit_group)))
        WithSides(sides) ==
            Resolved(sides,
               resolve_account_alias(d, sides.debit_account_name, user_id),
               resolve_account_alias(d, sides.credit_account_name, user_id))
    IN WithSides(InsertSides(parsed))

\* insert, lines 94-111.  confidence is in hundredths: 100 is 1.0
InsertValid(parsed, user_id, channel_id, message_id) ==
    /\ Truthy(user_id)
    /\ Truthy(channel_id)
    /\ Truthy(message_id)
    /\ is_valid(parsed)
    /\ IsNum(parsed.amount) /\ Val(parsed.amount) > 0
    /\ parsed.confidence >= 0 /\ parsed.confidence <= 100

\* insert, lines 94-209: everything before the first statement of the
\* write scope; the value is the list of statements to run
InsertBegin(d, parsed, user_id, channel_id, message_id) ==
    LET WithSystem(sys) ==
            IF sys.kind # "ok" THEN Result(sys.db, sys.kind, NoRow)
            ELSE InsertPlan(sys.db, parsed, user_id)
    IN IF ~InsertValid(parsed, user_id, channel_id, message_id)
       THEN Result(d, "ValueError", NoRow)
       ELSE WithSystem(ensure_system_accounts(d, user_id))

\* insert, lines 298-327: the LedgerEntry returned
InsertedEntry(w, parsed, user_id) ==
    [ id |-> w.seq.ledger_entries,
      transaction_id |-> w.seq.transactions,
      action |-> parsed.action, amount |-> Val(parsed.amount),
      source |-> parsed.source, destination |-> parsed.destination,
      description |-> parsed.description, user_id |-> user_id ]

insert(d, parsed, user_id, channel_id, message_id, fault) ==
    LET Written(run) ==
            IF run.failed THEN Result(run.db, "OperationalError", NoRow)
            ELSE Result(run.db, "ok", InsertedEntry(run.db, parsed, user_id))
        WithPlan(plan) ==
            IF plan.kind # "ok" THEN Result(plan.db, plan.kind, NoRow)
            ELSE Written(RunScope(plan.db, plan.value, fault))
    IN WithPlan(InsertBegin(d, parsed, user_id, channel_id, message_id))

\* update_transaction, lines 737-836: the statements of the write scope
UpdateStmts(d, transaction_id, user_id, txn_row, ledger_row, new_amount, new_source, new_destination, new_description) ==
    LET Unknown == <<"U","n","k","n","o","w","n">>
        NameOf(group, name) == IF group # NoRow THEN group.name ELSE name
        Resolve_(name) == IF Truthy(name)
                          THEN resolve_account_alias(d, name, user_id)
                          ELSE NoRow
        Stmts(final_amount, final_source, final_destination,
              final_description, debit_name, credit_name, journal) ==
            [ i \in 1..Len(journal) |->
                [op |-> "update_journal", id |-> journal[i].id,
                 amount |-> final_amount,
                 account_name |->
                    IF journal[i].entry_type = "debit"
                    THEN Or(debit_name, Unknown)
                    ELSE Or(credit_name, Unknown)] ]
            \o << [op |-> "update_transaction", id |-> transaction_id,
                   description |-> final_description],
                  [op |-> "update_ledger", id |-> ledger_row.id,
                   amount |-> final_amount, source |-> final_source,
                   destination |-> final_destination,
                   description |-> final_description] >>
        Final(final_amount, final_source, final_destination,
              final_description) ==
            Stmts(final_amount, final_source, final_destination,
                  final_description,
                  NameOf(Resolve_(final_destination), final_destination),
                  NameOf(Resolve_(final_source), final_source),
                  SortById({ je \in d.journal_entries :
                              je.transaction_id = transaction_id }))
    IN Final(IF IsNum(new_amount) THEN Val(new_amount) ELSE ledger_row.amount,
             IF new_source # None THEN new_source ELSE ledger_row.source,
             IF new_destination # None THEN new_destination
                                       ELSE ledger_row.destination,
             IF new_description # None THEN new_description
                                       ELSE txn_row.description)

update_transaction(d, transaction_id, user_id, new_amount, new_source, new_destination, new_description, fault) ==
    LET Written(run) ==
            IF run.failed THEN Result(run.db, "OperationalError", NoRow)
            \* line 845: read back on a second connection before the
            \* scope commits, so the committed (old) rows are returned
            ELSE Result(run.db, "ok", get_transaction_by_id(d, transaction_id))
        Found(txn_rows, ledger_rows) ==
            IF txn_rows = {} \/ ledger_rows = {} THEN Result(d, "ok", NoRow)
            ELSE Written(RunScope(d,
                   UpdateStmts(d, transaction_id, user_id,
                      CHOOSE t \in txn_rows : TRUE,
                      CHOOSE le \in ledger_rows :
                         \A q \in ledger_rows : le.id <= q.id,
                      new_amount, new_source, new_destination,
                      new_description),
                   fault))
    IN IF transaction_id <= 0 \/ ~Truthy(user_id)
          \/ (IsNum(new_amount) /\ Val(new_amount) <= 0)
       THEN Result(d, "ValueError", NoRow)
       ELSE Found({ t \in d.transactions :
                      t.id = transaction_id /\ t.user_id = user_id },
                  { le \in d.ledger_entries :
                      le.transaction_id = transaction_id
                      /\ le.user_id = user_id })

\* delete_entry, lines 897-910
DeleteStmts(entry_id, transaction_id) ==
    << [op |-> "delete_ledger", id |-> entry_id] >>
    \o IF transaction_id # 0
       THEN << [op |-> "delete_journal", transaction_id |-> transaction_id],
               [op |-> "delete_transaction", id |-> transaction_id] >>
       ELSE << >>

\* A variant without the ownership check
DeleteAuthorized_Any(row, user_id) == TRUE

\* delete_entry, lines 890-895: the ownership check
DeleteAuthorized(row, user_id) == row.user_id = user_id

delete_entry(d, entry_id, user_id, fault) ==
    LET Written(run) ==
            IF run.failed THEN Result(run.db, "OperationalError", NoRow)
            ELSE Result(run.db, "ok", TRUE)
        Found(rows) ==
            IF rows = {} THEN Result(d, "ok", FALSE)
            ELSE IF ~DeleteAuthorized(CHOOSE le \in rows : TRUE, user_id)
            THEN Result(d, "ok", FALSE)
            ELSE Written(RunScope(d,
                   DeleteStmts(entry_id, (CHOOSE le \in rows : TRUE).transaction_id),
                   fault))
    IN IF entry_id <= 0 \/ ~Truthy(user_id) THEN Result(d, "ValueError", NoRow)
       ELSE Found({ le \in d.ledger_entries : le.id = entry_id })

(***************************************************************************)
(* Reports.  The rows a report reads: the journal entries joined with the  *)
(* owner's transactions.                                                   *)
(***************************************************************************)
RECURSIVE SumAmount(_)
SumAmount(rows) ==
    IF rows = {} THEN 0
    ELSE LET r == CHOOSE x \in rows : TRUE IN r.amount + SumAmount(rows \ {r})

RECURSIVE SumOver(_, _)
SumOver(S, f) ==
    IF S = {} THEN 0
    ELSE LET x == CHOOSE y \in S : TRUE IN f[x] + SumOver(S \ {x}, f)

UserEntries(d, user_id) ==
    { je \in d.journal_entries :
        \E t \in d.transactions : t.id = je.transaction_id /\ t.user_id = user_id }

EntryNames(d, user_id) == { je.account_name : je \in UserEntries(d, user_id) }

DebitTotal(d, user_id, name) ==
    SumAmount({ je \in UserEntries(d, user_id) :
                  je.account_name = name /\ je.entry_type = "debit" })

CreditTotal(d, user_id, name) ==
    SumAmount({ je \in UserEntries(d, user_id) :
                  je.account_name = name /\ je.entry_type = "credit" })

debit_normal_types == {"asset", "expense"}

SignedBalance(account_type, debit_total, credit_total) ==
    IF account_type \in debit_normal_types
    THEN debit_total - credit_total
    ELSE credit_total - debit_total

(***************************************************************************)
(* QueryRepository                                                         *)
(***************************************************************************)
\* lines 100-133 and 763-793: type of an account name (group by exact name,
\* else legacy account by exact name, else asset)
QAccountTypeOf(d, user_id, name) ==
    LET gs == { i \in GroupIds(d) :
                  d.account_groups[i].name = name
                  /\ d.account_groups[i].user_id = user_id }
        as == { i \in AccountIds(d) :
                  d.accounts[i].name = name /\ d.accounts[i].user_id = user_id }
    IN IF gs # {} THEN d.account_groups[MinOf(gs)].account_type
       ELSE IF as # {} THEN d.accounts[MinOf(as)].account_type
       ELSE "asset"

Q_get_user_balance_by_account(d, user_id) ==
    [ name \in EntryNames(d, user_id) |->
        SignedBalance(QAccountTypeOf(d, user_id, name),
                      DebitTotal(d, user_id, name),
                      CreditTotal(d, user_id, name)) ]

Q_get_trial_balance(d, user_id) ==
    LET names == EntryNames(d, user_id)
        debit == [ n \in names |-> DebitTotal(d, user_id, n) ]
        credit == [ n \in names |-> CreditTotal(d, user_id, n) ]
        total_debits == SumOver(names, debit)
        total_credits == SumOver(names, credit)
    IN [ accounts |-> [ n \in names |-> [debit |-> debit[n], credit |-> credit[n]] ],
         total_debits |-> total_debits,
         total_credits |-> total_credits,
         is_balanced |-> Abs(total_debits - total_credits) * 100 < 1 ]

\* lines 802-814: the display name a balance is aggregated under
QDisplayName(d, user_id, account_name) ==
    LET ids == { r.group_id : r \in
                   { r \in d.account_aliases :
                       /\ r.alias = Lower(account_name)
                       /\ r.user_id = user_id
                       /\ r.group_id \in GroupIds(d) } }
    IN IF ids = {} THEN account_name ELSE d.account_groups[MinOf(ids)].name

\* Totals of a balance sheet whose line display_name carries the type
\* typed_as[display_name] and the sum of the balances of the names in
\* members[display_name]
SheetTotals(balances, members, typed_as) ==
    LET lines == DOMAIN members
        amount == [ l \in lines |-> SumOver(members[l], balances) ]
        total(ts) == SumOver({ l \in lines : typed_as[l] \in ts }, amount)
        total_assets == total({"asset"})
        total_liabilities == total({"liability"})
        total_equity == total({"equity"}) + total({"revenue"}) - total({"expense"})
    IN [ assets |-> { l \in lines : typed_as[l] = "asset" },
         liabilities |-> { l \in lines : typed_as[l] = "liability" },
         equity |-> { l \in lines : typed_as[l] = "equity" },
         amount |-> amount,
         total_assets |-> total_assets,
         total_liabilities |-> total_liabilities,
         total_equity |-> total_equity,
         is_balanced |->
            Abs(total_assets - (total_liabilities + total_equity)) * 100 < 1 ]

\* get_balance_sheet, lines 795-821: a display name takes the type of the
\* first account name aggregated under it; the order is that of the rows
\* of a GROUP BY without ORDER BY, so every member can be the first.
Q_get_balance_sheet(d, user_id) ==
    LET balances == Q_get_user_balance_by_account(d, user_id)
        names == DOMAIN balances
        lines == { QDisplayName(d, user_id, n) : n \in names }
        members == [ l \in lines |->
                       { n \in names : QDisplayName(d, user_id, n) = l } ]
        firsts == { f \in [lines -> names] : \A l \in lines : f[l] \in members[l] }
    IN { SheetTotals(balances, members,
                     [ l \in lines |-> QAccountTypeOf(d, user_id, f[l]) ])
         : f \in firsts }

(***************************************************************************)
(* LedgerRepository (repository.py): the same tables, reports joined on    *)
(* journal_entries.account_id                                              *)
(***************************************************************************)
\* COALESCE(ag.account_type, a.account_type) of one journal entry
LEntryType(d, je) ==
    IF je.account_id \in GroupIds(d)
    THEN d.account_groups[je.account_id].account_type
    ELSE IF je.account_id \in AccountIds(d)
    THEN d.accounts[je.account_id].account_type
    ELSE "null"

\* get_user_balance_by_account, lines 1614-1644: a name takes the type of
\* its first row, which can be the type of any of its entries
L_get_user_balance_by_account(d, user_id) ==
    LET names == EntryNames(d, user_id)
        types == [ n \in names |->
                     { LEntryType(d, je) : je \in
                         { e \in UserEntries(d, user_id) : e.account_name = n } } ]
    IN { [ n \in names |->
             SignedBalance(t[n], DebitTotal(d, user_id, n),
                           CreditTotal(d, user_id, n)) ]
         : t \in { f \in [names -> AccountType] :
                     \A n \in names : f[n] \in types[n] } }

L_get_trial_balance(d, user_id) ==
    LET rows == { <<je.account_name, LEntryType(d, je)>> :
                    je \in UserEntries(d, user_id) }
        of(row, entry_type) ==
            SumAmount({ je \in UserEntries(d, user_id) :
                          /\ je.account_name = row[1]
                          /\ LEntryType(d, je) = row[2]
                          /\ je.entry_type = entry_type })
        debit == [ row \in rows |-> of(row, "debit") ]
        credit == [ row \in rows |-> of(row, "credit") ]
        total_debits == SumOver(rows, debit)
        total_credits == SumOver(rows, credit)
    IN [ accounts |-> [ row \in rows |->
                          [debit |-> debit[row], credit |-> credit[row]] ],
         total_debits |-> total_debits,
         total_credits |-> total_credits,
         is_balanced |-> Abs(total_debits - total_credits) * 100 < 1,
         difference |-> total_debits - total_credits ]

\* get_balance_sheet, lines 2262-2302: lines typed by the legacy accounts
\* table looked up by the journal entry's name, default asset
LSheetTypeOf(d, user_id, name) ==
    LET as == { i \in AccountIds(d) :
                  d.accounts[i].name = name /\ d.accounts[i].user_id = user_id }
    IN IF as # {} THEN d.accounts[MinOf(as)].account_type ELSE "asset"

L_get_balance_sheet(d, user_id) ==
    { SheetTotals(balances,
                  [ n \in DOMAIN balances |-> {n} ],
                  [ n \in DOMAIN balances |-> LSheetTypeOf(d, user_id, n) ])
      : balances \in L_get_user_balance_by_account(d, user_id) }

\* get_balance_sheet, lines 2264-2313: the sheet made of one result of
\* get_user_balance_by_account
L_balance_sheet_of(d, user_id, balances) ==
    SheetTotals(balances,
                [ n \in DOMAIN balances |-> {n} ],
                [ n \in DOMAIN balances |-> LSheetTypeOf(d, user_id, n) ])

\* An income statement: its revenue and expense lines by name and its totals
IncomeStatement(revenue, expenses) ==
    LET total_revenue == SumOver(DOMAIN revenue, revenue)
        total_expenses == SumOver(DOMAIN expenses, expenses)
    IN [ revenue |-> revenue,
         expenses |-> expenses,
         total_revenue |-> total_revenue,
         total_expenses |-> total_expenses,
         net_income |-> total_revenue - total_expenses ]

\* QueryRepository.get_income_statement without date bounds, lines 668-722:
\* the credit entries on names of the owner's revenue groups and the debit
\* entries on names of the owner's expense groups
Q_get_income_statement(d, user_id) ==
    LET Named(account_type, entry_type) ==
            { je.account_name : je \in
                { e \in UserEntries(d, user_id) :
                    /\ e.entry_type = entry_type
                    /\ \E i \in GroupIds(d) :
                          /\ d.account_groups[i].name = e.account_name
                          /\ d.account_groups[i].user_id = user_id
                          /\ d.account_groups[i].account_type = account_type } }
    IN IncomeStatement(
          [ n \in Named("revenue", "credit") |-> CreditTotal(d, user_id, n) ],
          [ n \in Named("expense", "debit") |-> DebitTotal(d, user_id, n) ])

\* LedgerRepository.get_income_statement without date bounds, lines
\* 2170-2238: rows grouped by name and COALESCE(ag.account_type,
\* a.account_type), both joined on je.account_id
L_get_income_statement(d, user_id) ==
    LET Rows(account_type) ==
            { e \in UserEntries(d, user_id) : LEntryType(d, e) = account_type }
        Total(account_type, n, entry_type) ==
            SumAmount({ e \in Rows(account_type) :
                          e.account_name = n /\ e.entry_type = entry_type })
    IN IncomeStatement(
          [ n \in { e.account_name : e \in Rows("revenue") } |->
              Total("revenue", n, "credit") - Total("revenue", n, "debit") ],
          [ n \in { e.account_name : e \in Rows("expense") } |->
              Total("expense", n, "debit") - Total("expense", n, "credit") ])

\* get_total_balance (the same statement in QueryRepository and in
\* LedgerRepository): incoming less outgoing amounts of the owner's legacy
\* ledger rows
get_total_balance(d, user_id) ==
    LET rows == { le \in d.ledger_entries : le.user_id = user_id }
    IN SumAmount({ le \in rows : le.action = "incoming" })
       - SumAmount({ le \in rows : le.action = "outgoing" })

(***************************************************************************)
(* Bounds and the values calls are made with                               *)
(***************************************************************************)
MaxTxns == 2

MaxUserGroups == 2

MaxAliasRows == 2

U1 == <<"u","1">>

U2 == <<"u","2">>

Users == {U1, U2}

Ovo == <<"o","v","o">>

OvoPadded == <<" ","O","v","o">>

OvoShout == <<"O","V","O"," ">>

OvoName == <<"O","v","o">>

Bca == <<"B","c","a">>

Owe == <<"o","w","e">>

Blank == <<" ">>

Note == <<"n","o","t","e">>

Chan == <<"c","h">>

Msg == <<"m","s","g">>

Intent(action, amount, source, destination) ==
    [ action |-> action, amount |-> amount, source |-> source,
      destination |-> destination, description |-> None, confidence |-> 100 ]

NoCall == [op |-> "none"]

(***************************************************************************)
(* Calls run to completion: one action per repository operation.  last is  *)
(* the call made by the step and what it returned or raised.               *)
(***************************************************************************)
Init ==
    /\ db = EmptyDb
    /\ last = NoCall
    /\ conns = <<>>
    /\ wlock = 0

\* The step of a call: the store it leaves and what it returned or raised
Returned(call, r) ==
    /\ db' = r.db
    /\ last' = call @@ [kind |-> r.kind, value |-> r.value]
    /\ UNCHANGED <<conns, wlock>>

Post(u, parsed, channel_id, message_id, fault) ==
    /\ db.seq.transactions < MaxTxns
    /\ Returned([op |-> "post", user_id |-> u, parsed |-> parsed],
                insert(db, parsed, u, channel_id, message_id, fault))

Update(u, transaction_id, new_amount, new_source, new_destination, new_description, fault) ==
    /\ Returned([op |-> "update", user_id |-> u, id |-> transaction_id,
                 new_amount |-> new_amount, new_source |-> new_source,
                 new_destination |-> new_destination,
                 new_description |-> new_description],
                update_transaction(db, transaction_id, u, new_amount, new_source,
                                   new_destination, new_description, fault))

Delete(u, entry_id, fault) ==
    /\ Returned([op |-> "delete", user_id |-> u, id |-> entry_id],
                delete_entry(db, entry_id, u, fault))

CreateGroup(u, name, account_type) ==
    /\ Cardinality({ i \in GroupIds(db) : ~db.account_groups[i].is_system })
         < MaxUserGroups
    /\ Returned([op |-> "createGroup", user_id |-> u, name |-> name,
                 account_type |-> account_type],
                create_account_group(db, name, u, account_type, FALSE))

AddAlias(u, alias, group_id) ==
    /\ db.seq.account_aliases - Len(db.account_groups) < MaxAliasRows
    /\ Returned([op |-> "addAlias", user_id |-> u, alias |-> alias,
                 group_id |-> group_id],
                add_account_alias(db, alias, group_id, u))

RemoveAlias(u, alias) ==
    /\ Returned([op |-> "removeAlias", user_id |-> u, alias |-> alias],
                remove_account_alias(db, alias, u))

EnsureSystemGroups(u) ==
    /\ Returned([op |-> "ensureGroups", user_id |-> u],
                ensure_system_account_groups(db, u))

Resolve(u, alias) ==
    /\ Returned([op |-> "resolve", user_id |-> u, alias |-> alias],
                Result(db, "ok", resolve_account_alias(db, alias, u)))

(***************************************************************************)
(* The posting engine: post, update and delete by two owners               *)
(***************************************************************************)
LedgerIntents ==
    { Intent("incoming", Num(1), None, Ovo),
      Intent("outgoing", Num(2), Ovo, None),
      Intent("transfer", Num(1), Ovo, Owe) }

Next ==
    \/ \E u \in Users, p \in LedgerIntents : Post(u, p, Chan, Msg, 0)
    \/ \E u \in Users, id \in 1..MaxTxns :
          Update(u, id, Num(3), Owe, None, None, 0)
    \/ \E u \in Users, id \in 1..MaxTxns : Delete(u, id, 0)

Spec == Init /\ [][Next]_vars

(***************************************************************************)
(* Properties of the posting engine                                        *)
(***************************************************************************)
EntriesOf(d, transaction_id) ==
    { je \in d.journal_entries : je.transaction_id = transaction_id }

BalancedPair(es) ==
    /\ Cardinality(es) = 2
    /\ \E de \in es, ce \in es :
          /\ de.entry_type = "debit"
          /\ ce.entry_type = "credit"
          /\ de.amount = ce.amount
          /\ de.amount > 0

\* C1: every stored transaction has exactly two journal entries, one debit
\* and one credit, carrying the same amount, which is greater than zero.
C1_BalancedPairs ==
    \A t \in db.transactions : BalancedPair(EntriesOf(db, t.id))

\* An update has rewritten the entries of a transaction that is still stored.
C1_Witness ==
    /\ last.op = "update"
    /\ last.kind = "ok"
    /\ last.value # NoRow
    /\ \E t \in db.transactions : t.id = last.id

(***************************************************************************)
(* Trial balance                                                           *)
(***************************************************************************)
Balanced(tb) == tb.total_debits = tb.total_credits /\ tb.is_balanced

\* C2: for every owner, in every state reachable by post, update and
\* delete calls of any owners, the trial balance of both report
\* implementations has total_debits = total_credits and is_balanced.
C2_TrialBalanceBalanced ==
    \A u \in Users :
       /\ Balanced(Q_get_trial_balance(db, u))
       /\ Balanced(L_get_trial_balance(db, u))

\* A delete has succeeded and an owner still has entries to total
C2_Witness ==
    /\ last.op = "delete"
    /\ last.kind = "ok"
    /\ last.value = TRUE
    /\ \E u \in Users : Q_get_trial_balance(db, u).total_debits > 0

(***************************************************************************)
(* update_transaction and delete_entry: targets and frames                 *)
(***************************************************************************)
\* The transaction exists and belongs to the owner
OwnsTransaction(d, transaction_id, user_id) ==
    \E t \in d.transactions : t.id = transaction_id /\ t.user_id = user_id

\* The ledger entry exists and belongs to the owner
OwnsEntry(d, entry_id, user_id) ==
    \E le \in d.ledger_entries : le.id = entry_id /\ le.user_id = user_id

NamesOf(es, entry_type) ==
    { je.account_name : je \in { e \in es : e.entry_type = entry_type } }

AmountsOf(es) == { je.amount : je \in es }

DescriptionsOf(d, transaction_id) ==
    { t.description : t \in { r \in d.transactions : r.id = transaction_id } }

\* What an update that found its target may change, given the call
OmittedKept(call, before, after) ==
    /\ ~IsNum(call.new_amount) =>
          AmountsOf(EntriesOf(after, call.id)) = AmountsOf(EntriesOf(before, call.id))
    /\ call.new_source = None =>
          NamesOf(EntriesOf(after, call.id), "credit")
             = NamesOf(EntriesOf(before, call.id), "credit")
    /\ call.new_destination = None =>
          NamesOf(EntriesOf(after, call.id), "debit")
             = NamesOf(EntriesOf(before, call.id), "debit")
    /\ call.new_description = None =>
          DescriptionsOf(after, call.id) = DescriptionsOf(before, call.id)

\* C7: an update of an owned transaction keeps, for every omitted field
\* among amount, source, destination and description, the journal amount,
\* the credit account name, the debit account name and the description.
C7_OmittedFieldsKept ==
    [][ (last'.op = "update" /\ OwnsTransaction(db, last'.id, last'.user_id))
           => (last'.kind = "ok" /\ OmittedKept(last', db, db')) ]_vars

\* C8: update_transaction returns None and delete_entry returns False when
\* the target does not exist or belongs to another owner, and the call
\* leaves every table as it was.
C8_MissingOrForeignTarget ==
    [][ /\ (last'.op = "update" /\ ~OwnsTransaction(db, last'.id, last'.user_id))
             => (last'.kind = "ok" /\ last'.value = NoRow /\ db' = db)
        /\ (last'.op = "delete" /\ ~OwnsEntry(db, last'.id, last'.user_id))
             => (last'.kind = "ok" /\ last'.value = FALSE /\ db' = db) ]_vars

\* A delete aimed at another owner's entry has returned False
C8_Witness ==
    /\ last.op = "delete"
    /\ last.kind = "ok"
    /\ last.value = FALSE
    /\ \E le \in db.ledger_entries : le.id = last.id /\ le.user_id # last.user_id

\* The trial-balance accounts of an owner that keep an entry outside the
\* transaction
NamesLeft(d, user_id, transaction_id) ==
    { je.account_name : je \in
        { e \in UserEntries(d, user_id) : e.transaction_id # transaction_id } }

\* The effect of deleting ledger entry le of owner user_id
DeleteFrame(before, after, le, user_id) ==
    /\ after.ledger_entries = before.ledger_entries \ {le}
    /\ after.transactions =
          { t \in before.transactions : t.id # le.transaction_id }
    /\ Cardinality(EntriesOf(before, le.transaction_id)) = 2
    /\ after.journal_entries =
          before.journal_entries \ EntriesOf(before, le.transaction_id)
    /\ after.account_groups = before.account_groups
    /\ after.account_aliases = before.account_aliases
    /\ after.accounts = before.accounts
    /\ \A amount \in AmountsOf(EntriesOf(before, le.transaction_id)) :
          /\ Q_get_trial_balance(after, user_id).total_debits
                = Q_get_trial_balance(before, user_id).total_debits - amount
          /\ Q_get_trial_balance(after, user_id).total_credits
                = Q_get_trial_balance(before, user_id).total_credits - amount
          /\ L_get_trial_balance(after, user_id).total_debits
                = L_get_trial_balance(before, user_id).total_debits - amount
          /\ L_get_trial_balance(after, user_id).total_credits
                = L_get_trial_balance(before, user_id).total_credits - amount
    /\ DOMAIN Q_get_trial_balance(after, user_id).accounts
          = NamesLeft(before, user_id, le.transaction_id)
    /\ { row[1] : row \in DOMAIN L_get_trial_balance(after, user_id).accounts }
          = NamesLeft(before, user_id, le.transaction_id)
    /\ \A o \in Users \ {user_id} :
          Q_get_trial_balance(after, o) = Q_get_trial_balance(before, o)

\* C9: a successful delete removes exactly the target transaction row, its
\* two journal entries and its ledger row and nothing else; the owner's
\* trial-balance totals each fall by the deleted amount and an account
\* with no other entry leaves the trial balance.
C9_DeleteFrame ==
    [][ (last'.op = "delete" /\ last'.kind = "ok" /\ last'.value = TRUE)
           => \E le \in db.ledger_entries :
                 /\ le.id = last'.id
                 /\ DeleteFrame(db, db', le, last'.user_id) ]_vars

\* A delete has succeeded while another transaction stays stored
C9_Witness ==
    /\ last.op = "delete"
    /\ last.kind = "ok"
    /\ last.value = TRUE
    /\ db.seq.transactions = MaxTxns
    /\ Cardinality(db.transactions) = 1

(***************************************************************************)
(* The account directory: groups and aliases of two owners                 *)
(***************************************************************************)
NextAccounts ==
    \/ \E u \in Users : CreateGroup(u, Bca, "asset")
    \/ CreateGroup(U1, Ovo, "liability")
    \/ \E u \in Users, g \in 1..MaxUserGroups : AddAlias(u, OvoPadded, g)
    \/ \E u \in Users : RemoveAlias(u, OvoShout)
    \/ \E u \in Users : Resolve(u, OvoShout)

SpecAccounts == Init /\ [][NextAccounts]_vars

\* Spellings of account names that differ in letter case and in leading or
\* trailing whitespace
Spellings ==
    { Ovo, OvoPadded, OvoShout, <<"\t","o","V","o","\n"," ">>,
      Bca, <<" ","b","C","a">>, Owe }

\* b equals a up to letter case and surrounding whitespace
SameAlias(a, b) == Lower(Strip(a)) = Lower(Strip(b))

ResolvesTo(d, alias, user_id, group_id) ==
    LET Is(g) == g # NoRow /\ g.id = group_id
    IN Is(resolve_account_alias(d, alias, user_id))

\* The step removes the owner's alias that the spelling names
Removes(call, alias, user_id) ==
    /\ call.op = "removeAlias"
    /\ call.user_id = user_id
    /\ SameAlias(call.alias, alias)

\* C10: once addAlias(a, g, owner) has succeeded, resolve(a', owner)
\* returns group g for every spelling a' of a (letter case, leading and
\* trailing whitespace), and goes on doing so over every step that is not
\* the removal of that alias by the owner.
C10_AliasResolves ==
    [][ /\ (last'.op = "addAlias" /\ last'.kind = "ok")
             => \A b \in Spellings :
                   SameAlias(last'.alias, b)
                      => ResolvesTo(db', b, last'.user_id, last'.group_id)
        /\ \A u \in Users, b \in Spellings :
              LET Kept(g) == (g # NoRow /\ ~Removes(last', b, u))
                                => ResolvesTo(db', b, u, g.id)
              IN Kept(resolve_account_alias(db, b, u)) ]_vars

\* An alias was added under a padded, capitalised spelling and a later
\* lookup under another spelling has returned its group
C10_Witness ==
    /\ last.op = "resolve"
    /\ last.alias = OvoShout
    /\ last.value # NoRow
    /\ last.value.name = Bca

GroupOwned(d, group_id, user_id) ==
    /\ group_id \in GroupIds(d)
    /\ d.account_groups[group_id].user_id = user_id

\* The alias rows of an owner that a spelling names
AliasRows(d, alias, user_id) ==
    { r \in d.account_aliases : r.user_id = user_id /\ SameAlias(r.alias, alias) }

MapsElsewhere(d, alias, user_id, group_id) ==
    LET Other(g) == g # NoRow /\ g.id # group_id
    IN Other(resolve_account_alias(d, alias, user_id))

\* C11: addAlias(a, g2, owner) raises ValueError when a resolves to another
\* group g1 of the owner, or when g2 is no group of the owner; the alias
\* table is then as before and a resolves as before.
C11_AddAliasRejected ==
    [][ (/\ last'.op = "addAlias"
         /\ \/ ~GroupOwned(db, last'.group_id, last'.user_id)
            \/ MapsElsewhere(db, last'.alias, last'.user_id, last'.group_id))
        => /\ last'.kind = "ValueError"
           /\ db'.account_aliases = db.account_aliases
           /\ resolve_account_alias(db', last'.alias, last'.user_id)
                = resolve_account_alias(db, last'.alias, last'.user_id) ]_vars

\* An owner's alias bound to one of their groups was refused for another
\* of their groups
C11_Witness ==
    /\ last.op = "addAlias"
    /\ last.kind = "ValueError"
    /\ GroupOwned(db, last.group_id, last.user_id)
    /\ MapsElsewhere(db, last.alias, last.user_id, last.group_id)

C20_RemoveAliasFrame ==
    [][ last'.op = "removeAlias"
        => /\ last'.kind = "ok"
           /\ last'.value = (AliasRows(db, last'.alias, last'.user_id) # {})
           /\ db'.account_aliases
                = db.account_aliases \ AliasRows(db, last'.alias, last'.user_id)
           /\ resolve_account_alias(db', last'.alias, last'.user_id) = NoRow
           /\ db'.account_groups = db.account_groups
           /\ db'.accounts = db.accounts
           /\ db'.transactions = db.transactions
           /\ db'.journal_entries = db.journal_entries
           /\ db'.ledger_entries = db.ledger_entries ]_vars

\* An alias typed in another spelling was removed while its group and
\* another alias row stay
C20_Witness ==
    /\ last.op = "removeAlias"
    /\ last.value
    /\ db.account_groups # <<>>
    /\ db.account_aliases # {}

(***************************************************************************)
(* The books of one owner: posts, updates and deletes with groups and      *)
(* aliases created and removed between them                                *)
(***************************************************************************)
BookIntents ==
    { Intent("incoming", Num(1), None, Ovo),
      Intent("outgoing", Num(2), Ovo, None) }

NextBooks ==
    \/ \E p \in BookIntents : Post(U1, p, Chan, Msg, 0)
    \/ \E id \in 1..MaxTxns : Update(U1, id, NoneNum, None, Owe, None, 0)
    \/ \E id \in 1..MaxTxns : Delete(U1, id, 0)
    \/ CreateGroup(U1, OvoName, "liability")
    \/ \E g \in 1..(MaxUserGroups + Len(DEFAULT_SYSTEM_ACCOUNTS)) :
          AddAlias(U1, Owe, g)
    \/ RemoveAlias(U1, Owe)

SpecBooks == Init /\ [][NextBooks]_vars

\* C3: for every owner and every history of post, update, delete,
\* createGroup, addAlias and removeAlias calls, every balance sheet either
\* report implementation can produce has is_balanced = true, that is
\* total_assets = total_liabilities + total_equity.
C3_BalanceSheetBalanced ==
    \A u \in Users :
       \A sheet \in Q_get_balance_sheet(db, u) \cup L_get_balance_sheet(db, u) :
          /\ sheet.is_balanced
          /\ sheet.total_assets = sheet.total_liabilities + sheet.total_equity

(***************************************************************************)
(* Intake: posts of well-formed and malformed intents, with a storage      *)
(* failure at any statement of the write scope                             *)
(***************************************************************************)
Empty == <<>>

IntakeIntents ==
    { Intent("transfer", Num(1), Ovo, Owe),
      Intent("transfer", Num(1), None, Ovo),
      Intent("transfer", Num(1), Ovo, None),
      Intent("transfer", Num(1), Empty, Ovo),
      Intent("transfer", Num(1), Ovo, Empty),
      Intent("incoming", Num(1), None, Ovo),
      Intent("incoming", Num(1), Ovo, None),
      Intent("incoming", Num(1), None, Empty),
      Intent("incoming", Num(1), None, Blank),
      Intent("outgoing", Num(1), Ovo, None),
      Intent("outgoing", Num(1), None, Ovo),
      Intent("outgoing", Num(1), Empty, None),
      Intent("outgoing", NoneNum, Ovo, None),
      Intent("outgoing", Num(0), Ovo, None),
      Intent("outgoing", Num(-1), Ovo, None),
      [Intent("outgoing", Num(1), Ovo, None) EXCEPT !.confidence = -1],
      [Intent("outgoing", Num(1), Ovo, None) EXCEPT !.confidence = 101] }

\* A failure at one of the four statements of insert's write scope or at
\* its commit
FaultSteps == 1..5

NextIntake ==
    \/ \E p \in IntakeIntents : Post(U1, p, Chan, Msg, 0)
    \/ \E fault \in FaultSteps :
          Post(U1, Intent("transfer", Num(1), Ovo, Owe), Chan, Msg, fault)
    \/ \E id \in 1..MaxTxns : Delete(U1, id, 0)

SpecIntake == Init /\ [][NextIntake]_vars

\* The field is missing or empty
Missing(name) == name = None \/ name = Empty

\* The intents the engine has to reject
Malformed(parsed) ==
    \/ parsed.action = "transfer"
          /\ (Missing(parsed.source) \/ Missing(parsed.destination))
    \/ parsed.action = "incoming" /\ Missing(parsed.destination)
    \/ parsed.action = "outgoing" /\ Missing(parsed.source)
    \/ ~IsNum(parsed.amount)
    \/ IsNum(parsed.amount) /\ Val(parsed.amount) <= 0
    \/ parsed.confidence < 0
    \/ parsed.confidence > 100

\* C4: post rejects with an invalid-input error, writing nothing, an
\* intent whose required source or destination is missing or empty, whose
\* amount is missing or not greater than zero, or whose confidence is
\* outside [0,1].
C4_MalformedRejected ==
    [][ (last'.op = "post" /\ Malformed(last'.parsed))
           => (last'.kind = "ValueError" /\ db' = db) ]_vars

\* C6: a write operation that fails leaves every table exactly as it was
\* before the call.
C6_AllOrNothing ==
    [][ last'.kind # "ok" => db' = db ]_vars

(***************************************************************************)
(* Concurrent callers.  Each process runs insert on a connection of its    *)
(* own, one statement at a time; the first statement takes SQLite's write  *)
(* lock, which the commit or the rollback gives back.  Readers see the     *)
(* committed store db.                                                     *)
(***************************************************************************)
Procs == {1, 2}

Idle == [pc |-> "idle"]

Conn(p) == IF p \in DOMAIN conns THEN conns[p] ELSE Idle

Closed(p) == [ q \in DOMAIN conns \ {p} |-> conns[q] ]

OpenConns == { p \in DOMAIN conns : conns[p].pc = "open" }

\* The working copy of the connection of p
Working(p) == RunStmts(db, conns[p].stmts, conns[p].done)

\* insert up to the first statement of its write scope.  The system and
\* legacy accounts it creates are committed by scopes of their own, which
\* need the write lock when they write.
BeginPost(p, u, parsed) ==
    LET Begun(plan) ==
            /\ plan.db = db \/ wlock = 0
            /\ db' = plan.db
            /\ IF plan.kind = "ok"
               THEN /\ conns' = (p :> [pc |-> "open", user_id |-> u,
                                       parsed |-> parsed, stmts |-> plan.value,
                                       done |-> 0]) @@ conns
                    /\ UNCHANGED last
               ELSE /\ last' = [op |-> "post", user_id |-> u, parsed |-> parsed,
                                kind |-> plan.kind, value |-> NoRow]
                    /\ UNCHANGED conns
            /\ UNCHANGED wlock
    IN /\ Conn(p) = Idle
       /\ db.seq.transactions + Cardinality(OpenConns) < MaxTxns
       /\ Begun(InsertBegin(db, parsed, u, Chan, Msg))

\* The next statement of the write scope of p
Statement(p) ==
    /\ Conn(p) # Idle
    /\ conns[p].done < Len(conns[p].stmts)
    /\ wlock \in {0, p}
    /\ wlock' = p
    /\ conns' = [conns EXCEPT ![p].done = @ + 1]
    /\ UNCHANGED <<db, last>>

\* _get_connection, line 59: the scope ends and commits
CommitPost(p) ==
    /\ Conn(p) # Idle
    /\ conns[p].done = Len(conns[p].stmts)
    /\ wlock = p
    /\ db' = Commit(db, Working(p))
    /\ last' = [op |-> "post", user_id |-> conns[p].user_id,
                parsed |-> conns[p].parsed, kind |-> "ok",
                value |-> InsertedEntry(Working(p), conns[p].parsed,
                                        conns[p].user_id)]
    /\ conns' = Closed(p)
    /\ wlock' = 0

\* _get_connection, lines 60-69: the next statement or the commit raises
\* and the scope rolls back
FailPost(p) ==
    /\ Conn(p) # Idle
    /\ db' = Rollback(db, Working(p))
    /\ last' = [op |-> "post", user_id |-> conns[p].user_id,
                parsed |-> conns[p].parsed, kind |-> "OperationalError",
                value |-> NoRow, done |-> conns[p].done]
    /\ conns' = Closed(p)
    /\ wlock' = IF wlock = p THEN 0 ELSE wlock

ConcIntents ==
    { Intent("incoming", Num(1), None, Ovo),
      Intent("transfer", Num(2), Ovo, Owe) }

NextConc ==
    \/ \E p \in Procs, parsed \in ConcIntents : BeginPost(p, U1, parsed)
    \/ \E p \in Procs : Statement(p)
    \/ \E p \in Procs : CommitPost(p)
    \/ \E p \in Procs : FailPost(p)
    \/ \E id \in 1..MaxTxns : wlock = 0 /\ Update(U1, id, Num(3), None, None, Note, 0)
    \/ \E id \in 1..MaxTxns : wlock = 0 /\ Delete(U1, id, 0)

SpecConc == Init /\ [][NextConc]_vars

\* C5: what any reader can see, the committed store, never holds a
\* transaction without its two journal entries and its ledger row, nor a
\* journal entry or a linked ledger row whose transaction does not exist,
\* whatever the interleaving of the callers and wherever a post fails.
C5_PostVisibleTogether ==
    /\ \A t \in db.transactions :
          /\ Cardinality(EntriesOf(db, t.id)) = 2
          /\ \E le \in db.ledger_entries : le.transaction_id = t.id
    /\ \A je \in db.journal_entries :
          \E t \in db.transactions : t.id = je.transaction_id
    /\ \A le \in db.ledger_entries :
          \E t \in db.transactions : t.id = le.transaction_id

\* A post has failed after some of its statements ran, while a transaction
\* of another post is stored and a third call is in the middle of its scope
C5_Witness ==
    /\ last.op = "post"
    /\ last.kind = "OperationalError"
    /\ last.done > 0
    /\ db.transactions # {}
    /\ \E p \in OpenConns : conns[p].done > 0

(***************************************************************************)
(* Concurrent callers of AccountRepository.  create_account_group and      *)
(* add_account_alias run their SELECTs on the committed store, then their  *)
(* INSERTs on a working copy under the write lock; the schema's UNIQUE,    *)
(* CHECK and REFERENCES constraints are checked by each INSERT.            *)
(***************************************************************************)
\* INSERT INTO account_groups
InsertGroupRow(w, name, account_type, user_id, is_system) ==
    IF \/ account_type \notin AccountType
       \/ \E i \in GroupIds(w) : /\ w.account_groups[i].name = name
                                 /\ w.account_groups[i].user_id = user_id
    THEN Result(w, "IntegrityError", 0)
    ELSE Result([w EXCEPT !.account_groups =
                    Append(@, [name |-> name, account_type |-> account_type,
                               user_id |-> user_id, is_system |-> is_system])],
                "ok", Len(w.account_groups) + 1)

\* A variant without UNIQUE(alias, user_id)
InsertAliasRow_NoUnique(w, alias, group_id, user_id) ==
    LET row == [id |-> w.seq.account_aliases + 1, alias |-> alias,
                group_id |-> group_id, user_id |-> user_id]
    IN Result([w EXCEPT !.account_aliases = @ \cup {row},
                        !.seq.account_aliases = row.id], "ok", row)

\* INSERT INTO account_aliases
InsertAliasRow(w, alias, group_id, user_id) ==
    LET row == [id |-> w.seq.account_aliases + 1, alias |-> alias,
                group_id |-> group_id, user_id |-> user_id]
    IN IF \/ group_id \notin GroupIds(w)
          \/ \E r \in w.account_aliases :
                r.alias = alias /\ r.user_id = user_id
       THEN Result(w, "IntegrityError", NoRow)
       ELSE Result([w EXCEPT !.account_aliases = @ \cup {row},
                             !.seq.account_aliases = row.id], "ok", row)

AccountCalls(op) == { p \in DOMAIN conns : conns[p].call.op = op }

\* The call of connection p has ended: what it returned or raised
Ended(p, kind, value) ==
    /\ last' = conns[p].call @@ [kind |-> kind, value |-> value]
    /\ conns' = Closed(p)

\* create_account_group, lines 69-88: validation and the SELECT for a group
\* of the same name
BeginCreateGroup(p, u, name, account_type) ==
    LET call == [op |-> "createGroup", user_id |-> u, name |-> name,
                 account_type |-> account_type]
        dup == \E i \in GroupIds(db) :
                  /\ Lower(db.account_groups[i].name) = Lower(Strip(name))
                  /\ db.account_groups[i].user_id = u
    IN /\ Conn(p) = Idle
       /\ Len(db.account_groups) + Cardinality(AccountCalls("createGroup"))
            < MaxUserGroups
       /\ IF ~Truthy(name) \/ Strip(name) = <<>> \/ ~Truthy(u) \/ dup
          THEN /\ last' = call @@ [kind |-> "ValueError", value |-> NoRow]
               /\ UNCHANGED conns
          ELSE /\ conns' = (p :> [pc |-> "insert_group", call |-> call]) @@ conns
               /\ UNCHANGED last
       /\ UNCHANGED <<db, wlock>>

\* create_account_group, lines 91-106: the INSERT of the group row starts
\* the write transaction
InsertGroup(p) ==
    LET Inserted(c, r) ==
            IF r.kind = "ok"
            THEN /\ conns' = [conns EXCEPT ![p] =
                        [pc |-> "insert_alias", call |-> c.call,
                         alias |-> Lower(Strip(c.call.name)),
                         group_id |-> r.value, work |-> r.db]]
                 /\ wlock' = p
                 /\ UNCHANGED <<db, last>>
            ELSE /\ Ended(p, r.kind, NoRow)
                 /\ db' = Rollback(db, r.db)
                 /\ UNCHANGED wlock
    IN /\ Conn(p).pc = "insert_group"
       /\ wlock = 0
       /\ Inserted(conns[p], InsertGroupRow(db, Strip(conns[p].call.name),
                                            conns[p].call.account_type,
                                            conns[p].call.user_id, FALSE))

\* add_account_alias, lines 269-288: validation and the SELECT of the group
BeginAddAlias(p, u, alias, group_id) ==
    LET call == [op |-> "addAlias", user_id |-> u, alias |-> alias,
                 group_id |-> group_id]
        group_ok == /\ group_id \in GroupIds(db)
                    /\ db.account_groups[group_id].user_id = u
    IN /\ Conn(p) = Idle
       /\ db.seq.account_aliases - Len(db.account_groups)
            + Cardinality(AccountCalls("addAlias")) < MaxAliasRows
       /\ IF ~Truthy(alias) \/ Strip(alias) = <<>> \/ ~Truthy(u) \/ ~group_ok
          THEN /\ last' = call @@ [kind |-> "ValueError", value |-> NoRow]
               /\ UNCHANGED conns
          ELSE /\ conns' = (p :> [pc |-> "select_alias", call |-> call,
                                  alias |-> Lower(Strip(alias)),
                                  group_id |-> group_id]) @@ conns
               /\ UNCHANGED last
       /\ UNCHANGED <<db, wlock>>

\* add_account_alias, lines 291-311: the SELECT of the alias row
SelectAlias(p) ==
    LET Found(c, existing) ==
            IF existing = {}
            THEN /\ conns' = [conns EXCEPT ![p].pc = "insert_alias"]
                 /\ UNCHANGED last
            ELSE \E e \in existing :
                    IF e.group_id = c.group_id
                    THEN Ended(p, "ok", e)
                    ELSE Ended(p, "ValueError", NoRow)
    IN /\ Conn(p).pc = "select_alias"
       /\ Found(conns[p], { r \in db.account_aliases :
                              /\ r.alias = conns[p].alias
                              /\ r.user_id = conns[p].call.user_id })
       /\ UNCHANGED <<db, wlock>>

\* create_account_group, lines 109-115, and add_account_alias, lines
\* 314-320: the INSERT of the alias row
InsertAlias(p) ==
    LET Inserted(c, r) ==
            IF r.kind = "ok"
            THEN /\ conns' = [conns EXCEPT ![p] =
                        [pc |-> "commit", call |-> c.call, alias |-> c.alias,
                         group_id |-> c.group_id, work |-> r.db,
                         row |-> r.value]]
                 /\ wlock' = p
                 /\ UNCHANGED <<db, last>>
            ELSE /\ Ended(p, r.kind, NoRow)
                 /\ db' = Rollback(db, r.db)
                 /\ wlock' = 0
        On(c, w) == Inserted(c, InsertAliasRow(w, c.alias, c.group_id,
                                               c.call.user_id))
    IN /\ Conn(p).pc = "insert_alias"
       /\ wlock \in {0, p}
       /\ On(conns[p], IF wlock = p THEN conns[p].work ELSE db)

\* _get_connection, line 59: the scope ends and commits
CommitAccounts(p) ==
    LET Returns(c) ==
            IF c.call.op = "createGroup" THEN GroupRow(c.work, c.group_id)
            ELSE c.row
    IN /\ Conn(p).pc = "commit"
       /\ wlock = p
       /\ db' = Commit(db, conns[p].work)
       /\ Ended(p, "ok", Returns(conns[p]))
       /\ wlock' = 0

\* _get_connection, lines 60-69: a statement or the commit raises
\* sqlite3.OperationalError (the lock wait timed out, the disk failed) and
\* the scope rolls back
FailAccounts(p) ==
    /\ Conn(p).pc \in {"insert_group", "select_alias", "insert_alias", "commit"}
    /\ db' = Rollback(db, IF wlock = p THEN conns[p].work ELSE db)
    /\ Ended(p, "OperationalError", NoRow)
    /\ wlock' = IF wlock = p THEN 0 ELSE wlock

BcaLower == <<"b","c","a">>

BcaPadded == <<" ","b","C","a">>

NextAccountsConc ==
    \/ \E p \in Procs, name \in {Bca, BcaLower, Ovo} :
          BeginCreateGroup(p, U1, name, "asset")
    \/ \E p \in Procs : InsertGroup(p)
    \/ \E p \in Procs, u \in Users, g \in 1..MaxUserGroups :
          BeginAddAlias(p, u, BcaPadded, g)
    \/ \E p \in Procs : SelectAlias(p)
    \/ \E p \in Procs : InsertAlias(p)
    \/ \E p \in Procs : CommitAccounts(p)
    \/ \E p \in Procs : FailAccounts(p)
    \/ wlock = 0 /\ RemoveAlias(U1, BcaLower)

SpecAccountsConc == Init /\ [][NextAccountsConc]_vars

\* C13: the committed store never holds two alias rows of one owner for
\* the same normalized alias, and every alias row points to an existing
\* group of its owner, also when addAlias and createGroup calls binding the
\* same alias interleave: the INSERT of the later one fails.
C13_AliasUnique ==
    /\ \A r1 \in db.account_aliases, r2 \in db.account_aliases :
          (r1.user_id = r2.user_id /\ SameAlias(r1.alias, r2.alias)) => r1 = r2
    /\ \A r \in db.account_aliases : GroupOwned(db, r.group_id, r.user_id)

\* An addAlias that found the alias free lost the race for it: its INSERT
\* was refused and the row of the other caller is stored
C13_Witness ==
    /\ last.op = "addAlias"
    /\ last.kind = "IntegrityError"
    /\ AliasRows(db, last.alias, last.user_id) # {}

\* C14: no owner has two account groups whose names are equal up to letter
\* case, in any committed store, also when createGroup calls for case
\* variants of one name interleave.
C14_GroupNameUnique ==
    \A i \in GroupIds(db), j \in GroupIds(db) :
       (/\ db.account_groups[i].user_id = db.account_groups[j].user_id
        /\ Lower(db.account_groups[i].name) = Lower(db.account_groups[j].name))
       => i = j

\* The step ends the call op of connection p
EndsCall(p, op) ==
    /\ p \in DOMAIN conns
    /\ p \notin DOMAIN conns'
    /\ conns[p].call.op = op

\* The step commits one new group, which createGroup returns, together
\* with one new alias row, under which the group's name resolves to it
CreatedWithAlias ==
    /\ last'.op = "createGroup"
    /\ last'.kind = "ok"
    /\ Len(db'.account_groups) = Len(db.account_groups) + 1
    /\ last'.value = GroupRow(db', Len(db'.account_groups))
    /\ ResolvesTo(db', last'.name, last'.user_id, last'.value.id)
    /\ \E r \in db'.account_aliases :
          /\ db'.account_aliases = db.account_aliases \cup {r}
          /\ r \notin db.account_aliases
          /\ r.alias = Lower(Strip(last'.name))
          /\ r.group_id = last'.value.id
          /\ r.user_id = last'.user_id

\* C15: a createGroup that succeeds commits its group row and the alias
\* lower(name) -> group in one step, so the name resolves to the new group
\* from then on; a createGroup that ends in any error leaves the committed
\* store as it was, and group rows appear in no other way.
C15_CreateGroupAtomic ==
    [][ /\ \A p \in Procs :
              EndsCall(p, "createGroup")
              => IF last'.kind = "ok" THEN CreatedWithAlias ELSE db' = db
        /\ (last'.op = "createGroup" /\ last'.kind # "ok") => db' = db
        /\ db'.account_groups # db.account_groups => CreatedWithAlias ]_vars

\* A createGroup whose group row was inserted failed at its alias row, and
\* the store holds no group without the alias it was created with
C15_Witness ==
    /\ last.op = "createGroup"
    /\ last.kind = "IntegrityError"
    /\ db.account_groups # <<>>
    /\ \A i \in GroupIds(db) :
          Lower(db.account_groups[i].name) # Lower(Strip(last.name))

(***************************************************************************)
(* The system groups of an owner who also creates groups and aliases       *)
(***************************************************************************)
CashLower == <<"c","a","s","h">>

IncomePadded == <<" ","I","N","C","O","M","E">>

NextSystem ==
    \/ \E u \in Users : EnsureSystemGroups(u)
    \/ \E u \in Users : CreateGroup(u, CashLower, "liability")
    \/ \E u \in Users, g \in 1..MaxUserGroups : AddAlias(u, IncomePadded, g)
    \/ \E u \in Users : RemoveAlias(u, IncomePadded)

SpecSystem == Init /\ [][NextSystem]_vars

\* The groups of an owner whose name is the given one up to letter case
GroupsNamed(d, name, user_id) ==
    { i \in GroupIds(d) : /\ d.account_groups[i].user_id = user_id
                          /\ Lower(d.account_groups[i].name) = Lower(name) }

C17_OneBucketPerGroup ==
    \A u \in Users :
       \A n1 \in EntryNames(db, u), n2 \in EntryNames(db, u) :
          LET Same(g1, g2) == g1 # NoRow /\ g2 # NoRow /\ g1.id = g2.id
          IN (/\ n1 \in DOMAIN Q_get_user_balance_by_account(db, u)
              /\ n2 \in DOMAIN Q_get_user_balance_by_account(db, u)
              /\ Same(resolve_account_alias(db, n1, u),
                      resolve_account_alias(db, n2, u)))
             => n1 = n2

\* The type of the owner's group named name, else of the owner's legacy
\* account named name, else asset
NamedType(d, user_id, name) ==
    IF \E i \in GroupIds(d) : /\ d.account_groups[i].user_id = user_id
                              /\ d.account_groups[i].name = name
    THEN LET i == CHOOSE i \in GroupIds(d) :
                     /\ d.account_groups[i].user_id = user_id
                     /\ d.account_groups[i].name = name
         IN d.account_groups[i].account_type
    ELSE IF \E i \in AccountIds(d) : /\ d.accounts[i].user_id = user_id
                                     /\ d.accounts[i].name = name
    THEN LET i == CHOOSE i \in AccountIds(d) :
                     /\ d.accounts[i].user_id = user_id
                     /\ d.accounts[i].name = name
         IN d.accounts[i].account_type
    ELSE "asset"

\* The balance the normal-balance rule gives the name
NormalBalance(d, user_id, name) ==
    IF NamedType(d, user_id, name) \in {"asset", "expense"}
    THEN DebitTotal(d, user_id, name) - CreditTotal(d, user_id, name)
    ELSE CreditTotal(d, user_id, name) - DebitTotal(d, user_id, name)

\* C18: every balance that balancesByAccount(owner) reports for a name, in
\* QueryRepository and in LedgerRepository, is the name's debit total minus
\* its credit total when the name's type is asset or expense and the credit
\* total minus the debit total otherwise, the type being that of the owner's
\* group of that name, else of the owner's legacy account of that name,
\* else asset.
C18_NormalBalances ==
    \A u \in Users :
       \A balances \in {Q_get_user_balance_by_account(db, u)}
                         \cup L_get_user_balance_by_account(db, u) :
          /\ DOMAIN balances = EntryNames(db, u)
          /\ \A n \in DOMAIN balances : balances[n] = NormalBalance(db, u, n)

(***************************************************************************)
(* The sides of a post                                                     *)
(***************************************************************************)
\* The entry is booked on the account the owner's name stands for: the
\* group it resolves to, else the name as given
BookedOn(d, e, name, user_id) ==
    LET On(g) == IF g # NoRow
                 THEN e.account_name = g.name /\ e.account_id = g.id
                 ELSE e.account_name = name
    IN On(resolve_account_alias(d, name, user_id))

\* The entry is booked on the owner's system group of that name
BookedOnSystem(d, e, name, user_id) ==
    /\ e.account_name = name
    /\ e.account_id \in GroupIds(d)
    /\ d.account_groups[e.account_id].name = name
    /\ d.account_groups[e.account_id].user_id = user_id
    /\ d.account_groups[e.account_id].is_system

PostedSides(d, parsed, user_id, entries) ==
    \E de \in entries, ce \in entries :
       /\ de.entry_type = "debit"
       /\ ce.entry_type = "credit"
       /\ de.amount = Val(parsed.amount)
       /\ ce.amount = Val(parsed.amount)
       /\ IF parsed.destination # None
          THEN BookedOn(d, de, parsed.destination, user_id)
          ELSE /\ parsed.action = "outgoing"
               /\ BookedOnSystem(d, de, <<"E","x","p","e","n","s","e">>, user_id)
       /\ IF parsed.source # None
          THEN BookedOn(d, ce, parsed.source, user_id)
          ELSE /\ parsed.action = "incoming"
               /\ BookedOnSystem(d, ce, <<"I","n","c","o","m","e">>, user_id)

TotalsAre(tb, amount) ==
    /\ tb.total_debits = amount
    /\ tb.total_credits = amount
    /\ tb.is_balanced

PromoteIntents ==
    { Intent("incoming", Num(1), None, Ovo),
      Intent("transfer", Num(2), Ovo, Owe) }

NextPromote ==
    \/ \E p \in PromoteIntents : Post(U1, p, Chan, Msg, 0)
    \/ \E id \in 1..MaxTxns : Update(U1, id, NoneNum, None, Owe, None, 0)
    \/ CreateGroup(U1, Bca, "liability")
    \/ \E g \in 1..(MaxUserGroups + Len(DEFAULT_SYSTEM_ACCOUNTS)) :
          AddAlias(U1, Owe, g)

SpecPromote == Init /\ [][NextPromote]_vars

\* The alias a default system group is created with
SystemAliases ==
    { Lower(DEFAULT_SYSTEM_ACCOUNTS[k].name) :
        k \in 1..Len(DEFAULT_SYSTEM_ACCOUNTS) }

\* Every group and alias of after that before lacks is a system group of
\* the owner under a default name, or the alias such a group is created with
OnlySystemGroupsAdded(before, after, user_id) ==
    /\ Len(after.account_groups) >= Len(before.account_groups)
    /\ \A i \in GroupIds(before) :
          after.account_groups[i] = before.account_groups[i]
    /\ \A i \in GroupIds(after) \ GroupIds(before) :
          /\ after.account_groups[i].is_system
          /\ after.account_groups[i].user_id = user_id
          /\ Lower(after.account_groups[i].name) \in SystemAliases
    /\ before.account_aliases \subseteq after.account_aliases
    /\ \A a \in after.account_aliases \ before.account_aliases :
          /\ a.group_id \in GroupIds(after) \ GroupIds(before)
          /\ a.user_id = user_id
          /\ a.alias = Lower(after.account_groups[a.group_id].name)

\* The names of a call that no alias of the owner resolves and that are
\* not the alias of a default system group
UnresolvedNames(d, names, user_id) ==
    { n \in names \ {None} :
        /\ resolve_account_alias(d, n, user_id) = NoRow
        /\ Lower(Strip(n)) \notin SystemAliases }

StillUnresolved(before, after, names, user_id) ==
    \A n \in UnresolvedNames(before, names, user_id) :
       resolve_account_alias(after, n, user_id) = NoRow

\* C21: post and update never promote an unresolved name: apart from the
\* three system groups and their aliases created by the bootstrap of post,
\* the account groups and the aliases are the same after the call as before
\* it, and a name of the call that did not resolve still resolves to none.
C21_NoPromotion ==
    [][ /\ last'.op = "post"
           => /\ OnlySystemGroupsAdded(db, db', last'.user_id)
              /\ StillUnresolved(db, db',
                    {last'.parsed.source, last'.parsed.destination},
                    last'.user_id)
        /\ last'.op = "update"
           => /\ db'.account_groups = db.account_groups
              /\ db'.account_aliases = db.account_aliases
              /\ StillUnresolved(db, db',
                    {last'.new_source, last'.new_destination},
                    last'.user_id) ]_vars

\* A post on the unresolved name ovo has been stored next to a group and
\* an alias the owner made, and ovo resolves to none
C21_Witness ==
    /\ last.op = "post"
    /\ last.kind = "ok"
    /\ last.parsed.destination = Ovo
    /\ resolve_account_alias(db, Ovo, last.user_id) = NoRow
    /\ \E je \in EntriesOf(db, last.value.transaction_id) : je.account_name = Ovo
    /\ \E i \in GroupIds(db) : ~db.account_groups[i].is_system
    /\ \E a \in db.account_aliases : a.alias = Owe

(***************************************************************************)
(* Owner isolation                                                         *)
(***************************************************************************)
\* What the directory and the reports of both repositories return to an
\* owner
ReportsOf(d, user_id) ==
    [ resolve |-> [ n \in {Ovo, Owe, <<"I","n","c","o","m","e">>} |->
                      resolve_account_alias(d, n, user_id) ],
      balances |-> Q_get_user_balance_by_account(d, user_id),
      trial_balance |-> Q_get_trial_balance(d, user_id),
      income_statement |-> Q_get_income_statement(d, user_id),
      balance_sheet |-> Q_get_balance_sheet(d, user_id),
      ledger_balances |-> L_get_user_balance_by_account(d, user_id),
      ledger_trial_balance |-> L_get_trial_balance(d, user_id),
      ledger_income_statement |-> L_get_income_statement(d, user_id),
      ledger_balance_sheet |-> L_get_balance_sheet(d, user_id) ]

\* C22: owner isolation: no post, update or delete performed by one owner
\* changes what resolve, balancesByAccount, trialBalance, incomeStatement
\* or balanceSheet return for another owner, including the account type
\* under which that owner's entries are classified.
C22_OwnerIsolation ==
    [][ last'.op \in {"post", "update", "delete"}
           => \A a \in Users \ {last'.user_id} :
                 ReportsOf(db', a) = ReportsOf(db, a) ]_vars

(***************************************************************************)
(* Income statements: one owner's income, spending and a refund booked     *)
(* against the expense account                                             *)
(***************************************************************************)
ExpenseLower == <<"e","x","p","e","n","s","e">>

StatementIntents ==
    { Intent("incoming", Num(1), None, Ovo),
      Intent("outgoing", Num(2), Ovo, None),
      Intent("incoming", Num(1), ExpenseLower, Ovo) }

NextStatements ==
    \/ \E p \in StatementIntents : Post(U1, p, Chan, Msg, 0)
    \/ \E id \in 1..MaxTxns : Update(U1, id, Num(3), None, None, None, 0)
    \/ \E id \in 1..MaxTxns : Delete(U1, id, 0)

SpecStatements == Init /\ [][NextStatements]_vars

\* The income statement the rule gives: every name of the owner's entries
\* that is a revenue account with its credit total minus its debit total,
\* every name that is an expense account with its debit total minus its
\* credit total
RuleStatement(d, user_id) ==
    LET Typed(account_type) ==
            { n \in EntryNames(d, user_id) :
                NamedType(d, user_id, n) = account_type }
    IN IncomeStatement(
          [ n \in Typed("revenue") |->
              CreditTotal(d, user_id, n) - DebitTotal(d, user_id, n) ],
          [ n \in Typed("expense") |->
              DebitTotal(d, user_id, n) - CreditTotal(d, user_id, n) ])

\* C23: incomeStatement(owner), in QueryRepository and in LedgerRepository,
\* reports for each revenue account its credit total minus its debit total
\* and for each expense account its debit total minus its credit total,
\* over all of the owner's journal entries on revenue and expense accounts,
\* and net_income = total_revenue - total_expenses.
C23_IncomeStatement ==
    \A u \in Users :
       /\ Q_get_income_statement(db, u) = RuleStatement(db, u)
       /\ L_get_income_statement(db, u) = RuleStatement(db, u)

(***************************************************************************)
(* Retained earnings on the balance sheet                                  *)
(***************************************************************************)
\* The sheet made of the balances lists no revenue or expense account and
\* folds their balances into total_equity
EarningsFolded(d, user_id, sheet, balances) ==
    LET Typed(account_type) ==
            { n \in DOMAIN balances : NamedType(d, user_id, n) = account_type }
    IN /\ \A l \in sheet.assets \cup sheet.liabilities \cup sheet.equity :
             NamedType(d, user_id, l) \in {"asset", "liability", "equity"}
       /\ sheet.total_equity =
             SumOver(Typed("equity"), balances)
             + SumOver(Typed("revenue"), balances)
             - SumOver(Typed("expense"), balances)

\* C24: balanceSheet, in QueryRepository and in LedgerRepository, lists
\* only asset, liability and equity accounts as line items; every revenue
\* account's balance is added to total_equity and every expense account's
\* balance is subtracted from it and neither is listed, so total_equity is
\* the sum of the equity balances plus the sum of the revenue balances
\* minus the sum of the expense balances.
C24_EarningsFolded ==
    \A u \in Users :
       /\ \A sheet \in Q_get_balance_sheet(db, u) :
             EarningsFolded(db, u, sheet, Q_get_user_balance_by_account(db, u))
       /\ \A balances \in L_get_user_balance_by_account(db, u) :
             EarningsFolded(db, u, L_balance_sheet_of(db, u, balances), balances)

(***************************************************************************)
(* The life of a transaction                                               *)
(***************************************************************************)
\* The ids given out so far whose transaction is gone: the counter of the
\* table only moves with a committed insert, so these were deleted
DeletedIds(d) ==
    { i \in 1..d.seq.transactions : \A t \in d.transactions : t.id # i }

\* C25: a transaction keeps its id and its owner through every update, and
\* once deleted it never exists again: every later update of that id
\* returns None, every later delete of its ledger entry returns False, and
\* no later post is given the same id.
C25_Lifecycle ==
    [][ /\ DeletedIds(db) \subseteq DeletedIds(db')
        /\ \A le \in db'.ledger_entries : le.transaction_id = le.id
        /\ (last'.op = "update" /\ last'.id \in DeletedIds(db))
              => (last'.kind = "ok" /\ last'.value = NoRow /\ db' = db)
        /\ (last'.op = "delete" /\ last'.id \in DeletedIds(db))
              => (last'.kind = "ok" /\ last'.value = FALSE /\ db' = db)
        /\ (last'.op = "post" /\ last'.kind = "ok")
              => /\ last'.value.transaction_id = db.seq.transactions + 1
                 /\ last'.value.transaction_id \notin DeletedIds(db)
                 /\ \A t \in db.transactions : t.id # last'.value.transaction_id
        /\ (last'.op = "update" /\ OwnsTransaction(db, last'.id, last'.user_id))
              => /\ OwnsTransaction(db', last'.id, last'.user_id)
                 /\ { [id |-> t.id, user_id |-> t.user_id] : t \in db'.transactions }
                       = { [id |-> t.id, user_id |-> t.user_id] : t \in db.transactions }
                 /\ { je.id : je \in EntriesOf(db', last'.id) }
                       = { je.id : je \in EntriesOf(db, last'.id) }
                 /\ { le.id : le \in db'.ledger_entries }
                       = { le.id : le \in db.ledger_entries } ]_vars

\* An update of a deleted transaction has returned None after a later post
\* was given the next id
C25_Witness ==
    /\ last.op = "update"
    /\ last.kind = "ok"
    /\ last.value = NoRow
    /\ last.id \in DeletedIds(db)
    /\ \E t \in db.transactions : t.id > last.id /\ t.user_id = last.user_id

(***************************************************************************)
(* The connection scope.  _get_connection as the steps of its generator:   *)
(* connect, the body of the with statement, commit or rollback, close.     *)
(* The connection of p records the events it has seen and whether it holds *)
(* writes that are neither committed nor rolled back.                      *)
(***************************************************************************)
\* The except clauses, lines 60-69: where an exception raised in the scope
\* goes.  A variant that catches sqlite3.OperationalError only
ExceptClause_OperationalOnly(raised) ==
    IF raised = "OperationalError" THEN "rollback" ELSE "close"

ExceptClause(raised) == "rollback"

\* The body of the with statement of a call, read from the committed store:
\* its write statements and the way it leaves the scope
ScopeBody(d, call) ==
    LET Deleting(rows) ==
            IF rows = {} \/ ~DeleteAuthorized(CHOOSE le \in rows : TRUE, call.user_id)
            THEN [stmts |-> <<>>, exit |-> "return"]
            ELSE [stmts |-> DeleteStmts(call.id,
                               (CHOOSE le \in rows : TRUE).transaction_id),
                  exit |-> "normal"]
        \* add_account_alias, lines 280-311, for the calls made here: the
        \* group is not found and the body raises before its INSERT
        Aliasing(r) == [stmts |-> <<>>, exit |-> r.kind]
    IN IF call.op = "delete"
       THEN Deleting({ le \in d.ledger_entries : le.id = call.id })
       ELSE IF call.op = "addAlias"
       THEN Aliasing(add_account_alias(d, call.alias, call.group_id, call.user_id))
       ELSE [stmts |-> InsertBegin(d, call.parsed, call.user_id, Chan, Msg).value,
             exit |-> "normal"]

\* insert, lines 116-209: what the body commits through connections of
\* its own before the first statement on its connection
BeforeScope(d, call) ==
    IF call.op = "post"
    THEN InsertBegin(d, call.parsed, call.user_id, Chan, Msg)
    ELSE Result(d, "ok", NoRow)

ScopeCalls ==
    { [op |-> "post", user_id |-> U1, parsed |-> Intent("incoming", Num(1), None, Ovo)],
      [op |-> "addAlias", user_id |-> U1, alias |-> Owe, group_id |-> 0] }
    \cup { [op |-> "delete", user_id |-> U1, id |-> id] : id \in 1..MaxTxns }

Scoped == { p \in DOMAIN conns : conns[p].pc # "idle" }

\* lines 52-58: sqlite3.connect and the PRAGMA, up to the yield
Connect(p, call) ==
    LET Begun(before) ==
            /\ before.db = db \/ wlock = 0
            /\ db' = before.db
            /\ conns' = (p :> IF before.kind = "ok"
                              THEN [pc |-> "body", call |-> call,
                                    stmts |-> ScopeBody(before.db, call).stmts,
                                    exit |-> ScopeBody(before.db, call).exit,
                                    done |-> 0, dirty |-> FALSE,
                                    raised |-> "ok", events |-> <<>>]
                              ELSE [pc |-> ExceptClause(before.kind),
                                    call |-> call, stmts |-> <<>>,
                                    exit |-> before.kind,
                                    done |-> 0, dirty |-> FALSE,
                                    raised |-> before.kind, events |-> <<>>])
                         @@ conns
            /\ UNCHANGED <<last, wlock>>
    IN /\ Conn(p) = Idle
       /\ call.op = "post"
             => db.seq.transactions + Cardinality(Scoped) < MaxTxns
       /\ Begun(BeforeScope(db, call))

\* A write statement of the body runs on the connection
ScopeStatement(p) ==
    /\ Conn(p) # Idle
    /\ conns[p].pc = "body"
    /\ conns[p].done < Len(conns[p].stmts)
    /\ wlock \in {0, p}
    /\ wlock' = p
    /\ conns' = [conns EXCEPT ![p].done = @ + 1, ![p].dirty = TRUE]
    /\ UNCHANGED <<db, last>>

\* The body raises: sqlite3.OperationalError at any statement, or the
\* ValueError the body ends with
ScopeRaises(p, raised) ==
    /\ Conn(p) # Idle
    /\ conns[p].pc = "body"
    /\ \/ raised = "OperationalError"
       \/ /\ raised = conns[p].exit
          /\ conns[p].done = Len(conns[p].stmts)
    /\ conns' = [conns EXCEPT ![p].pc = ExceptClause(raised),
                              ![p].raised = raised]
    /\ UNCHANGED <<db, last, wlock>>

\* The body ends or returns inside the scope: the generator resumes after
\* the yield
ScopeLeaves(p) ==
    /\ Conn(p) # Idle
    /\ conns[p].pc = "body"
    /\ conns[p].done = Len(conns[p].stmts)
    /\ conns[p].exit \in {"normal", "return"}
    /\ conns' = [conns EXCEPT ![p].pc = "commit"]
    /\ UNCHANGED <<db, last, wlock>>

\* line 59: conn.commit()
ConnCommit(p) ==
    /\ Conn(p) # Idle
    /\ conns[p].pc = "commit"
    /\ db' = Commit(db, Working(p))
    /\ conns' = [conns EXCEPT ![p].pc = "close", ![p].dirty = FALSE,
                              ![p].events = Append(@, "commit")]
    /\ wlock' = IF wlock = p THEN 0 ELSE wlock
    /\ UNCHANGED last

\* line 59 raises sqlite3.OperationalError
CommitRaises(p) ==
    /\ Conn(p) # Idle
    /\ conns[p].pc = "commit"
    /\ conns' = [conns EXCEPT ![p].pc = ExceptClause("OperationalError"),
                              ![p].raised = "OperationalError"]
    /\ UNCHANGED <<db, last, wlock>>

\* lines 62-64 and 67-69: conn.rollback(), then the exception is raised again
ConnRollback(p) ==
    /\ Conn(p) # Idle
    /\ conns[p].pc = "rollback"
    /\ db' = Rollback(db, Working(p))
    /\ conns' = [conns EXCEPT ![p].pc = "close", ![p].dirty = FALSE,
                              ![p].events = Append(@, "rollback")]
    /\ wlock' = IF wlock = p THEN 0 ELSE wlock
    /\ UNCHANGED last

\* lines 70-72: conn.close(); closing discards what the connection holds
ConnClose(p) ==
    /\ Conn(p) # Idle
    /\ conns[p].pc = "close"
    /\ last' = [op |-> "scope", call |-> conns[p].call,
                kind |-> conns[p].raised, value |-> NoRow,
                events |-> Append(conns[p].events, "close"),
                done |-> conns[p].done, dirty |-> conns[p].dirty]
    /\ conns' = Closed(p)
    /\ wlock' = IF wlock = p THEN 0 ELSE wlock
    /\ UNCHANGED db

NextScope ==
    \/ \E p \in Procs, call \in ScopeCalls : Connect(p, call)
    \/ \E p \in Procs : ScopeStatement(p)
    \/ \E p \in Procs, raised \in {"OperationalError", "ValueError"} :
          ScopeRaises(p, raised)
    \/ \E p \in Procs : ScopeLeaves(p)
    \/ \E p \in Procs : ConnCommit(p)
    \/ \E p \in Procs : CommitRaises(p)
    \/ \E p \in Procs : ConnRollback(p)
    \/ \E p \in Procs : ConnClose(p)

SpecScope == Init /\ [][NextScope]_vars

\* C26: every repository operation that opens a storage connection ends,
\* on every exit path (normal completion, early return inside the scope,
\* validation error, storage error), with exactly one commit when no
\* exception escaped the scope or exactly one rollback when one did,
\* followed by closing the connection; writes made on the connection are
\* never left neither committed nor rolled back.
C26_ScopeReleased ==
    [][ \A p \in DOMAIN conns \ DOMAIN conns' :
           /\ last'.op = "scope"
           /\ last'.events = IF last'.kind = "ok"
                             THEN <<"commit", "close">>
                             ELSE <<"rollback", "close">>
           /\ ~last'.dirty
           /\ wlock' # p ]_vars

\* A scope that met a storage error after it wrote has been rolled back
\* and closed, while a scope that returned early has been committed
C26_Witness ==
    /\ last.op = "scope"
    /\ last.kind = "OperationalError"
    /\ last.done > 0
    /\ last.events = <<"rollback", "close">>
    /\ \E p \in DOMAIN conns :
          /\ conns[p].exit = "return"
          /\ conns[p].events = <<"commit">>

(***************************************************************************)
(* Spellings of an unresolved name: posts of one owner on ovo as typed in  *)
(* three ways                                                              *)
(***************************************************************************)
SpellingIntents ==
    { Intent("incoming", Num(1), None, n) : n \in {Ovo, OvoPadded, OvoShout} }
    \cup { Intent("outgoing", Num(2), n, None) : n \in {Ovo, OvoPadded, OvoShout} }

NextSpellings ==
    \/ \E p \in SpellingIntents : Post(U1, p, Chan, Msg, 0)
    \/ \E id \in 1..MaxTxns : Update(U1, id, Num(3), None, None, None, 0)
    \/ \E id \in 1..MaxTxns : Delete(U1, id, 0)

SpecSpellings == Init /\ [][NextSpellings]_vars

\* The entry of that type is booked under the trimmed, lower-cased name
\* when the name does not resolve
BookedNormalized(d, entries, entry_type, name, user_id) ==
    resolve_account_alias(d, name, user_id) = NoRow
       => \A e \in entries :
             e.entry_type = entry_type => e.account_name = Lower(Strip(name))

\* C27: when a name given to post does not resolve to a group, the journal
\* entry's account name is the trimmed, lower-cased form of that name, so
\* two unresolved spellings that differ only in letter case or surrounding
\* whitespace accumulate in the same balance bucket.
C27_UnresolvedNormalized ==
    [][ (last'.op = "post" /\ last'.kind = "ok")
        => /\ BookedNormalized(db', EntriesOf(db', last'.value.transaction_id),
                 "debit", InsertSides(last'.parsed).debit_account_name,
                 last'.user_id)
           /\ BookedNormalized(db', EntriesOf(db', last'.value.transaction_id),
                 "credit", InsertSides(last'.parsed).credit_account_name,
                 last'.user_id)
           /\ \A n1 \in EntryNames(db', last'.user_id),
                 n2 \in EntryNames(db', last'.user_id) :
                 (/\ resolve_account_alias(db', n1, last'.user_id) = NoRow
                  /\ resolve_account_alias(db', n2, last'.user_id) = NoRow
                  /\ Lower(Strip(n1)) = Lower(Strip(n2)))
                 => n1 = n2 ]_vars

(***************************************************************************)
(* Transfers: one owner pays for food and then books a transfer on the     *)
(* same names                                                              *)
(***************************************************************************)
Food == <<"f","o","o","d">>

TransferIntents ==
    { Intent("outgoing", Num(2), Ovo, Food),
      Intent("transfer", Num(1), Ovo, Food),
      Intent("transfer", Num(1), Ovo, Owe) }

NextTransfers ==
    \/ \E p \in TransferIntents : Post(U1, p, Chan, Msg, 0)
    \/ \E id \in 1..MaxTxns : Update(U1, id, Num(3), None, None, None, 0)
    \/ \E id \in 1..MaxTxns : Delete(U1, id, 0)

SpecTransfers == Init /\ [][NextTransfers]_vars

\* C28: for a transfer post, the account type associated with each side
\* (the type of the resolved group, or the type under which the legacy
\* account of that name is stored and by which the reports classify the
\* entry) is asset or liability; an inferred revenue or expense type is
\* replaced by asset.
C28_TransferSides ==
    [][ (last'.op = "post" /\ last'.kind = "ok"
         /\ last'.parsed.action = "transfer")
        => \A e \in EntriesOf(db', last'.value.transaction_id) :
              /\ QAccountTypeOf(db', last'.user_id, e.account_name)
                    \in {"asset", "liability"}
              /\ LEntryType(db', e) \in {"asset", "liability"} ]_vars

(***************************************************************************)
(* Updates: one owner edits the amount, the source and the destination of  *)
(* posts of the three actions, with names that resolve and names that do   *)
(* not                                                                     *)
(***************************************************************************)
UpdateIntents ==
    { Intent("incoming", Num(1), None, Ovo),
      Intent("outgoing", Num(2), Ovo, None),
      Intent("transfer", Num(1), Ovo, Owe) }

NextUpdates ==
    \/ \E p \in UpdateIntents : Post(U1, p, Chan, Msg, 0)
    \/ \E id \in 1..MaxTxns : Update(U1, id, Num(3), BcaLower, None, None, 0)
    \/ \E id \in 1..MaxTxns : Update(U1, id, NoneNum, None, Owe, Note, 0)
    \/ CreateGroup(U1, Bca, "asset")

SpecUpdates == Init /\ [][NextUpdates]_vars

\* The name an entry is to carry: the canonical name of the group the
\* owner's alias table resolves the name to, otherwise the name as given
ResolvedName(d, name, user_id) ==
    LET NameOf(g) == IF g # NoRow THEN g.name ELSE name
    IN NameOf(resolve_account_alias(d, name, user_id))

\* C29: when update_transaction is given a new amount, source or
\* destination, both journal entries of the transaction and its ledger row
\* carry the new amount afterwards, the credit entry carries the resolved
\* name of the new source and the debit entry the resolved name of the new
\* destination, for every action; the debit and credit roles never swap.
C29_UpdateRewrites ==
    [][ (/\ last'.op = "update"
         /\ last'.kind = "ok"
         /\ OwnsTransaction(db, last'.id, last'.user_id))
        => /\ BalancedPair(EntriesOf(db', last'.id))
           /\ { <<e.id, e.entry_type>> : e \in EntriesOf(db', last'.id) }
                 = { <<e.id, e.entry_type>> : e \in EntriesOf(db, last'.id) }
           /\ IsNum(last'.new_amount)
                 => /\ AmountsOf(EntriesOf(db', last'.id)) = {Val(last'.new_amount)}
                    /\ \A le \in db'.ledger_entries :
                          le.transaction_id = last'.id
                             => le.amount = Val(last'.new_amount)
           /\ last'.new_source # None
                 => NamesOf(EntriesOf(db', last'.id), "credit")
                       = {ResolvedName(db, last'.new_source, last'.user_id)}
           /\ last'.new_destination # None
                 => NamesOf(EntriesOf(db', last'.id), "debit")
                       = {ResolvedName(db, last'.new_destination, last'.user_id)}
      ]_vars

\* An update has given an incoming post a new amount and a new source that
\* resolves: its credit entry carries the group's canonical name and its
\* debit entry is still on the destination
C29_Witness ==
    /\ last.op = "update"
    /\ last.kind = "ok"
    /\ last.new_amount = Num(3)
    /\ last.new_source = BcaLower
    /\ last.new_destination = None
    /\ \E le \in db.ledger_entries :
          /\ le.transaction_id = last.id
          /\ le.action = "incoming"
          /\ le.amount = 3
    /\ NamesOf(EntriesOf(db, last.id), "credit") = {Bca}
    /\ NamesOf(EntriesOf(db, last.id), "debit") = {Ovo}
    /\ AmountsOf(EntriesOf(db, last.id)) = {3}

\* C30: the Transaction returned by a successful update_transaction
\* reflects the update: its journal entries carry the final amount and the
\* final debit and credit account names and its description is the final
\* description, that is, it equals what get_transaction_by_id returns once
\* the call has finished.
C30_UpdateReturnsUpdated ==
    [][ (/\ last'.op = "update"
         /\ last'.kind = "ok"
         /\ OwnsTransaction(db, last'.id, last'.user_id))
        => last'.value = get_transaction_by_id(db', last'.id) ]_vars

(***************************************************************************)
(* The outcomes of createGroup                                             *)
(***************************************************************************)
\* The owner has a group whose lower-cased name is that of the name
HasGroupNamed(d, name, user_id) ==
    \E i \in GroupIds(d) :
        /\ d.account_groups[i].user_id = user_id
        /\ Lower(d.account_groups[i].name) = Lower(Strip(name))

\* The owner has an alias row equal to the lower-cased name
HasAliasNamed(d, name, user_id) ==
    \E a \in d.account_aliases :
        a.user_id = user_id /\ a.alias = Lower(Strip(name))

UpdateCall(id, new_amount, new_source, new_destination, new_description) ==
    [op |-> "update", user_id |-> U1, id |-> id, new_amount |-> new_amount,
     new_source |-> new_source, new_destination |-> new_destination,
     new_description |-> new_description]

\* A caller that has returned
Finished(call, kind, value) ==
    [pc |-> "done", call |-> call, kind |-> kind, value |-> value,
     stmts |-> <<>>, done |-> 0]

\* update_transaction, lines 692-790: validation, the SELECTs of the
\* transaction, the ledger row and the journal entries, and the final
\* values, all before the first UPDATE
BeginUpdate(p, call) ==
    LET txn_rows == { t \in db.transactions :
                        t.id = call.id /\ t.user_id = call.user_id }
        ledger_rows == { le \in db.ledger_entries :
                           le.transaction_id = call.id
                           /\ le.user_id = call.user_id }
        Read(txn_row, ledger_row) ==
            [pc |-> "open", call |-> call,
             stmts |-> UpdateStmts(db, call.id, call.user_id, txn_row,
                                   ledger_row, call.new_amount,
                                   call.new_source, call.new_destination,
                                   call.new_description),
             done |-> 0]
    IN /\ Conn(p) = Idle
       /\ conns' = (p :>
            IF call.id <= 0 \/ ~Truthy(call.user_id)
               \/ (IsNum(call.new_amount) /\ Val(call.new_amount) <= 0)
            THEN Finished(call, "ValueError", NoRow)
            ELSE IF txn_rows = {} \/ ledger_rows = {}
            THEN Finished(call, "ok", NoRow)
            ELSE Read(CHOOSE t \in txn_rows : TRUE,
                      CHOOSE le \in ledger_rows :
                         \A q \in ledger_rows : le.id <= q.id)) @@ conns
       /\ UNCHANGED <<db, last, wlock>>

\* update_transaction, line 845, and _get_connection, line 59: the
\* transaction is read back on a second connection, then the scope ends
\* and commits
CommitUpdate(p) ==
    /\ Conn(p) # Idle
    /\ conns[p].pc = "open"
    /\ conns[p].done = Len(conns[p].stmts)
    /\ wlock = p
    /\ db' = Commit(db, Working(p))
    /\ last' = conns[p].call @@
               [kind |-> "ok",
                value |-> get_transaction_by_id(db, conns[p].call.id)]
    /\ conns' = [conns EXCEPT
                   ![p] = Finished(conns[p].call, "ok",
                                   get_transaction_by_id(db, conns[p].call.id))]
    /\ wlock' = 0

UpdateCalls ==
    { UpdateCall(id, Num(3), None, None, None) : id \in 1..MaxTxns }
    \cup { UpdateCall(id, NoneNum, None, None, Note) : id \in 1..MaxTxns }
    \cup { UpdateCall(id, NoneNum, None, Bca, None) : id \in 1..MaxTxns }

NextUpdatesConc ==
    \/ conns = <<>> /\ Post(U1, Intent("transfer", Num(1), Ovo, Owe), Chan, Msg, 0)
    \/ \E p \in Procs, call \in UpdateCalls : BeginUpdate(p, call)
    \/ \E p \in Procs : Statement(p)
    \/ \E p \in Procs : CommitUpdate(p)

SpecUpdatesConc == Init /\ [][NextUpdatesConc]_vars

\* The fields a call supplies
Supplied(call) ==
    (IF IsNum(call.new_amount) THEN {"amount"} ELSE {})
    \cup (IF call.new_source # None THEN {"source"} ELSE {})
    \cup (IF call.new_destination # None THEN {"destination"} ELSE {})
    \cup (IF call.new_description # None THEN {"description"} ELSE {})

\* The stored transaction carries the values the call supplied
Carries(d, call) ==
    /\ IsNum(call.new_amount) =>
          AmountsOf(EntriesOf(d, call.id)) = {Val(call.new_amount)}
    /\ call.new_source # None =>
          NamesOf(EntriesOf(d, call.id), "credit")
             = {ResolvedName(d, call.new_source, call.user_id)}
    /\ call.new_destination # None =>
          NamesOf(EntriesOf(d, call.id), "debit")
             = {ResolvedName(d, call.new_destination, call.user_id)}
    /\ call.new_description # None =>
          DescriptionsOf(d, call.id) = {call.new_description}

\* Both callers have returned from a successful update of the same
\* transaction, one supplied only the amount, and no field was supplied by
\* both
BothUpdated ==
    /\ DOMAIN conns = Procs
    /\ \A p \in Procs : /\ conns[p].pc = "done"
                        /\ conns[p].kind = "ok"
                        /\ conns[p].value # NoRow
    /\ conns[1].call.id = conns[2].call.id
    /\ \E p \in Procs : Supplied(conns[p].call) = {"amount"}
    /\ Supplied(conns[1].call) \cap Supplied(conns[2].call) = {}

\* C32: two concurrent update_transaction calls on the same transaction
\* that supply disjoint fields (one only the amount, the other only the
\* description or an account name) both take effect: under every
\* interleaving the final state carries both new values, as if the two
\* calls had run one after the other.
C32_DisjointUpdatesBothApply ==
    BothUpdated => \A p \in Procs : Carries(db, conns[p].call)

(***************************************************************************)
(* Concurrent first posts.  insert calls ensure_system_accounts before its  *)
(* own statements; ensure_system_account_groups looks each default group   *)
(* up and creates the missing ones, every lookup and every creation in a   *)
(* connection scope of its own, so other callers' scopes run in between.   *)
(***************************************************************************)
\* insert, lines 94-118: validation, then ensure_system_accounts is entered
BeginFirstPost(p, u, parsed) ==
    LET call == [op |-> "post", user_id |-> u, parsed |-> parsed,
                 first |-> ~\E i \in GroupIds(db) :
                               db.account_groups[i].user_id = u]
    IN /\ Conn(p) = Idle
       /\ conns' = (p :>
            IF ~InsertValid(parsed, u, Chan, Msg)
            THEN Finished(call, "ValueError", NoRow)
            ELSE [pc |-> "ensure", call |-> call, i |-> 1,
                  stmts |-> <<>>, done |-> 0]) @@ conns
       /\ UNCHANGED <<db, last, wlock>>

\* ensure_system_account_groups, lines 510-512: the lookup of the next
\* default group
SelectSystemGroup(p) ==
    LET def == DEFAULT_SYSTEM_ACCOUNTS[conns[p].i]
        Found(group) ==
            IF group # NoRow
            THEN [conns EXCEPT ![p].i = @ + 1]
            ELSE [conns EXCEPT ![p].pc = "create"]
    IN /\ Conn(p) # Idle
       /\ conns[p].pc = "ensure"
       /\ conns[p].i <= Len(DEFAULT_SYSTEM_ACCOUNTS)
       /\ conns' = Found(get_account_group_by_name(db, def.name,
                                                   conns[p].call.user_id))
       /\ UNCHANGED <<db, last, wlock>>

\* ensure_system_account_groups, lines 513-521: create_account_group for
\* the default that the lookup did not find; what it raises ends the post
CreateSystemGroup(p) ==
    LET def == DEFAULT_SYSTEM_ACCOUNTS[conns[p].i]
        Created(r) ==
            /\ db' = r.db
            /\ IF r.kind = "ok"
               THEN /\ conns' = [conns EXCEPT ![p].pc = "ensure", ![p].i = @ + 1]
                    /\ UNCHANGED last
               ELSE /\ conns' = [conns EXCEPT
                                   ![p] = Finished(conns[p].call, r.kind, NoRow)]
                    /\ last' = conns[p].call @@ [kind |-> r.kind, value |-> NoRow]
    IN /\ Conn(p) # Idle
       /\ conns[p].pc = "create"
       /\ wlock = 0
       /\ Created(create_account_group(db, def.name, conns[p].call.user_id,
                                       def.account_type, TRUE))
       /\ UNCHANGED wlock

\* ensure_system_accounts, lines 640-653, and insert, lines 119-322: the
\* legacy system accounts, the two sides and the write scope of the post
FinishPost(p) ==
    LET u == conns[p].call.user_id
        parsed == conns[p].call.parsed
        Written(run) == Result(run.db, "ok", InsertedEntry(run.db, parsed, u))
        WithPlan(plan) ==
            IF plan.kind # "ok" THEN Result(plan.db, plan.kind, NoRow)
            ELSE Written(RunScope(plan.db, plan.value, 0))
        WithAccounts(sys) ==
            IF sys.kind # "ok" THEN Result(sys.db, sys.kind, NoRow)
            ELSE WithPlan(InsertPlan(sys.db, parsed, u))
        Posted(r) ==
            /\ db' = r.db
            /\ conns' = [conns EXCEPT
                           ![p] = Finished(conns[p].call, r.kind, r.value)]
            /\ last' = conns[p].call @@ [kind |-> r.kind, value |-> r.value]
    IN /\ Conn(p) # Idle
       /\ conns[p].pc = "ensure"
       /\ conns[p].i > Len(DEFAULT_SYSTEM_ACCOUNTS)
       /\ wlock = 0
       /\ Posted(WithAccounts(EnsureAccountsFrom(db, u, 1)))
       /\ UNCHANGED wlock

NextFirstPosts ==
    \/ \E p \in Procs, u \in Users, parsed \in ConcIntents :
          BeginFirstPost(p, u, parsed)
    \/ \E p \in Procs : SelectSystemGroup(p)
    \/ \E p \in Procs : CreateSystemGroup(p)
    \/ \E p \in Procs : FinishPost(p)

SpecFirstPosts == Init /\ [][NextFirstPosts]_vars

\* Both callers have returned from a post of the same owner that began
\* when the owner had no group yet
BothFirstPosted ==
    /\ DOMAIN conns = Procs
    /\ \A p \in Procs : conns[p].pc = "done" /\ conns[p].call.first
    /\ conns[1].call.user_id = conns[2].call.user_id

\* C33: two concurrent first posts by an owner who has no system groups yet
\* both succeed, and afterwards the owner has exactly one Income, one
\* Expense and one Cash group and one transaction per post.
C33_ConcurrentFirstPosts ==
    BothFirstPosted =>
       /\ \A p \in Procs : conns[p].kind = "ok"
       /\ \A i \in DOMAIN DEFAULT_SYSTEM_ACCOUNTS :
             Cardinality(GroupsNamed(db, DEFAULT_SYSTEM_ACCOUNTS[i].name,
                                     conns[1].call.user_id)) = 1
       /\ Cardinality({ t \in db.transactions :
                          t.user_id = conns[1].call.user_id }) = 2

(***************************************************************************)
(* The account a journal entry refers to                                   *)
(***************************************************************************)
\* The owner of the transaction of a journal entry
OwnersOf(d, je) ==
    { t.user_id : t \in { r \in d.transactions : r.id = je.transaction_id } }

\* account_id and account_name of the entry denote one account of the
\* owner: the group with that id and name, or the legacy account with that
\* id whose name is the normalized account_name
SameAccount(d, je, user_id) ==
    \/ /\ je.account_id \in GroupIds(d)
       /\ d.account_groups[je.account_id].user_id = user_id
       /\ d.account_groups[je.account_id].name = je.account_name
    \/ /\ je.account_id \in AccountIds(d)
       /\ d.accounts[je.account_id].user_id = user_id
       /\ d.accounts[je.account_id].name = Lower(Strip(je.account_name))

\* C34: in every reachable state each journal entry's account reference
\* (account_id) and its account name denote the same account: either the
\* owner's group with that id has that name, or, for an unresolved name,
\* the owner's legacy account with that id has that name in normalized
\* form; this also holds after update_transaction changes the source or
\* destination.
C34_AccountReference ==
    \A je \in db.journal_entries :
        \A u \in OwnersOf(db, je) : SameAccount(db, je, u)

(***************************************************************************)
(* The journal and the legacy ledger rows                                  *)
(***************************************************************************)
\* The ledger rows of a transaction
LedgerRowsOf(d, transaction_id) ==
    { le \in d.ledger_entries : le.transaction_id = transaction_id }

\* C35: in every reachable state each transaction has exactly one legacy
\* ledger row, every ledger row's transaction_id names an existing
\* transaction of the same owner, and the ledger row's amount equals the
\* amount of that transaction's journal entries; post, update and delete
\* keep the two representations in step.
C35_LedgerInStep ==
    /\ \A t \in db.transactions :
          Cardinality(LedgerRowsOf(db, t.id)) = 1
    /\ \A le \in db.ledger_entries :
          /\ \E t \in db.transactions :
                t.id = le.transaction_id /\ t.user_id = le.user_id
          /\ AmountsOf(EntriesOf(db, le.transaction_id)) = {le.amount}

\* An update has changed the amount of a transaction after another
\* transaction was deleted
C35_Witness ==
    /\ last.op = "update"
    /\ last.kind = "ok"
    /\ last.value # NoRow
    /\ \E le \in db.ledger_entries :
          /\ le.transaction_id = last.id
          /\ le.amount = Val(last.new_amount)
          /\ AmountsOf(EntriesOf(db, last.id)) = {Val(last.new_amount)}
    /\ Cardinality(db.transactions) < db.seq.transactions

(***************************************************************************)
(* The total balance and the balance sheet                                 *)
(***************************************************************************)
\* C36: get_total_balance(owner) equals the sum of the owner's
\* asset-account balances, i.e. the total_assets of the owner's balance
\* sheet, after any sequence of post, update and delete calls.
C36_TotalBalanceIsAssets ==
    \A u \in Users :
        \A sheet \in Q_get_balance_sheet(db, u) :
            get_total_balance(db, u) = sheet.total_assets

(***************************************************************************)
(* Net income and the retained earnings of the balance sheet               *)
(***************************************************************************)
\* total_equity less the listed equity accounts
RetainedEarnings(sheet) ==
    sheet.total_equity - SumOver(sheet.equity, sheet.amount)

\* QueryRepository: the net income is the retained earnings of every sheet
QStatementMatchesSheet(d, user_id) ==
    \A sheet \in Q_get_balance_sheet(d, user_id) :
        Q_get_income_statement(d, user_id).net_income = RetainedEarnings(sheet)

\* LedgerRepository: the net income is the retained earnings of every sheet
LStatementMatchesSheet(d, user_id) ==
    \A sheet \in L_get_balance_sheet(d, user_id) :
        L_get_income_statement(d, user_id).net_income = RetainedEarnings(sheet)

\* C37: for the unbounded period, incomeStatement(owner).net_income equals
\* the retained-earnings part of the balance sheet
\* (balanceSheet(owner).total_equity minus the sum of the listed equity
\* accounts), after any sequence of post, update, delete and alias
\* operations.
C37_NetIncomeIsRetainedEarnings ==
    \A u \in Users :
        /\ QStatementMatchesSheet(db, u)
        /\ LStatementMatchesSheet(db, u)

(***************************************************************************)
(* The two implementations of the reports                                  *)
(***************************************************************************)
\* The totals of a trial balance
TrialTotals(tb) ==
    [ total_debits |-> tb.total_debits, total_credits |-> tb.total_credits,
      is_balanced |-> tb.is_balanced ]

\* C38: the two implementations of the report operations agree: for every
\* store reachable through createGroup, addAlias, removeAlias, post, update
\* and delete, LedgerRepository.get_user_balance_by_account and
\* QueryRepository.get_user_balance_by_account return the same
\* name-to-balance map, and the two get_trial_balance implementations
\* return the same total_debits, total_credits and is_balanced.
C38_ImplementationsAgree ==
    \A u \in Users :
        /\ L_get_user_balance_by_account(db, u)
              = { Q_get_user_balance_by_account(db, u) }
        /\ TrialTotals(L_get_trial_balance(db, u))
              = TrialTotals(Q_get_trial_balance(db, u))

====
